---- MODULE Spec2Model ----
(***************************************************************************)
(* Register-synchronisation service: the asyncio server (src/server), its  *)
(* VarTable, and the two transaction clients (src/web/Communication.py and *)
(* src/Visual_ob/Communication.py), modelled as one state machine.         *)
(*                                                                         *)
(* A Python int that travels as the 32-bit frame value is kept as a pair   *)
(* <<hi, lo>> standing for hi * 65536 + lo with lo in 0..65535, so that    *)
(* 2^32 - 1, 2^32 and -1 are all representable; it fits struct's 'I'       *)
(* exactly when hi is in 0..65535.                                         *)
(***************************************************************************)
EXTENDS Integers, Sequences, FiniteSets, TLC

VARIABLES
    vals,       \* VarTable._vals: register index -> value
    notified,   \* arguments of the last on_change call, <<>> when none yet
    clients,    \* AsyncServer.clients: the live-connection set
    srv,        \* per connection: the handle_client coroutine's position
                \*   ("closed": it returned, "failed": it ended with an exception)
    consoleUp,  \* the console coroutine is still in its loop
    c2s,        \* per connection: bytes sent by the peer, not yet read
    s2c,        \* per connection: bytes written by the server, not yet received
    peer,       \* per connection: the peer's end of the socket
    owner,      \* per connection: the client thread that dialled it (0: a raw peer)
    th,         \* per client thread: position and locals of read_var / write_var
    sockLock,   \* per client module: holder of _sock_lock (0: free);
                \* "table": holder of VarTable._lock
    stored,     \* history: the <<idx, val>> pairs VarTable.set has stored
    gh,         \* history per client thread: what became of its current call
    injected,   \* transport anomalies so far: refused connects, timeouts, split deliveries
    cfg,        \* the scenario: which callers exist and what they may pass
    orders,     \* web/main.py: per order its status, and history: how often a
                \*   produce and a return request for it were accepted
    bs          \* a ByteStream, and history: what send accepted and what the
                \*   socket took

srvVars == <<vals, notified, clients, srv, consoleUp>>
netVars == <<c2s, s2c, peer, owner>>
cliVars == <<th, sockLock>>
histVars == <<stored, gh, injected>>
appVars == <<orders, bs>>
vars == <<vals, notified, clients, srv, consoleUp, c2s, s2c, peer, owner,
          th, sockLock, stored, gh, injected, cfg, orders, bs>>

----------------------------------------------------------------------------
(* Bounds of the model *)

\* retry_max of the clients' configuration (default 5)
RETRY_MAX == 3
\* connections that may exist at the same time
MaxConn == 3
\* bytes of requests and unread replies an untrusted peer keeps outstanding
MaxInFlight == 11
\* transport anomalies in one run
MaxFaults == 2
\* calls a program makes on a VarTable it holds
MaxOps == 3
\* frames a probing peer sends in one go
MaxBurst == 2
\* exec requests a thread of the web application serves
MaxExec == 2
\* bytes passed to a ByteStream, and bytes it receives between two recv calls
MaxStream == 4

\* VarTable(100)
Size == 100
\* AsyncServer.FRAME_SIZE
FRAME_SIZE == 8

Conns == 1..MaxConn
Threads == {1, 2}

----------------------------------------------------------------------------
(* Frame codec: struct.pack / struct.unpack with format '!BBHI' *)

Zero == <<0, 0>>
\* the failure value of read_var, the Python int -1
MinusOne == <<-1, 65535>>
IsU32(v) == v[1] \in 0..65535 /\ v[2] \in 0..65535

READ_REQ == 64
READ_ACK == 65
READ_CONFIRM == 66
WRITE_REQ == 80
WRITE_READY == 81
WRITE_DATA == 82
WRITE_DONE == 83

\* struct.pack as it would be if it also took a signed index
PackOKLoose(cmd, idx, rsv, val) ==
    /\ cmd \in 0..255
    /\ idx \in -128..255
    /\ rsv \in 0..65535
    /\ IsU32(val)

\* struct.pack raises struct.error unless every field fits its width
PackOK(cmd, idx, rsv, val) ==
    /\ cmd \in 0..255
    /\ idx \in 0..255
    /\ rsv \in 0..65535
    /\ IsU32(val)

Pack(cmd, idx, rsv, val) ==
    << cmd, idx, rsv \div 256, rsv % 256,
       val[1] \div 256, val[1] % 256, val[2] \div 256, val[2] % 256 >>

\* struct.unpack_from('!BB', data, offset)
UnpackBB(data, offset) == [cmd |-> data[offset + 1], idx |-> data[offset + 2]]

\* struct.unpack_from('!BBHI', data, offset)
UnpackBBHI(data, offset) ==
    [ cmd |-> data[offset + 1],
      idx |-> data[offset + 2],
      rsv |-> data[offset + 3] * 256 + data[offset + 4],
      val |-> << data[offset + 5] * 256 + data[offset + 6],
                 data[offset + 7] * 256 + data[offset + 8] >> ]

\* the complete frames of a byte string, counted from its start
FramesOf(bytes) ==
    {UnpackBBHI(bytes, FRAME_SIZE * k) : k \in 0..((Len(bytes) \div FRAME_SIZE) - 1)}

----------------------------------------------------------------------------
(* VarTable *)

\* a list subscript: -Size..-1 count from the end
At(idx) == IF idx >= 0 THEN idx ELSE Size + idx

\* set as it would be with the range check the list subscript makes by itself
SetInRangeWrapped(idx) == -Size <= idx /\ idx < Size

\* set: the range check that raises IndexError
SetInRange(idx) == 0 <= idx /\ idx < Size

\* set as it would be with the write left out
SetValsDropped(table, idx, val) == table

\* set: the table after the call (the fast path returns without writing)
SetVals(table, idx, val) ==
    IF table[At(idx)] = val THEN table ELSE [table EXCEPT ![At(idx)] = val]

\* set as it would be if it called on_change on every call
SetNotifiedAlways(table, old, idx, val) == <<idx, val>>

\* set: the on_change call, made only when the value changed
SetNotified(table, old, idx, val) ==
    IF table[At(idx)] = val THEN old ELSE <<idx, val>>

\* get: a plain list subscript, so -Size..-1 count from the end and
\* everything else outside 0..Size-1 raises IndexError
GetOK(idx) == -Size <= idx /\ idx < Size

\* get as it would be reading the register next to idx
GetValNext(table, idx) == table[(idx + 1) % Size]

GetVal(table, idx) == table[At(idx)]

----------------------------------------------------------------------------
(* Connections: a slot is free while peer[c] = "none" *)

Take(s, n) == SubSeq(s, 1, n)
Drop(s, n) == SubSeq(s, n + 1, Len(s))

\* what one read of `avail` buffered bytes may return: all of them, or a
\* shorter segment when the transport delivers the bytes in two pieces
ReadLens(avail) ==
    {avail} \cup {k \in cfg.frag : k < avail /\ injected < cfg.faults}

\* history: one more anomaly when a delivery of `avail` bytes was cut to n
Injected(n, avail) == IF n < avail THEN injected + 1 ELSE injected

\* bytes the server writes reach the peer only while its socket is open
Written(c, bytes) ==
    IF peer[c] \in {"open", "stalled"} THEN s2c[c] \o bytes ELSE s2c[c]

\* history: a set(idx, val) that arrived on connection c (0: the console)
\* took the table from `before` to `after`. floor collects the values a
\* running read_var(idx) may return: those set while it runs
GhostOnSet(g, c, idx, val, before, after) ==
    [ t \in Threads |->
        LET own == /\ c # 0 /\ owner[c] = t
                   /\ th[t].pc # "idle" /\ th[t].op = "write"
                   /\ th[t].idx = idx /\ th[t].val = val
            changed == after # before
        IN  [ g[t] EXCEPT
                !.applied = IF own THEN "yes"
                            ELSE IF changed /\ @ = "yes" /\ th[t].idx = idx
                                 THEN "lost" ELSE @,
                !.fresh = IF changed /\ @ # <<>> /\ @[1] = idx THEN <<>> ELSE @,
                !.floor = IF @ # {} /\ th[t].pc # "idle" /\ th[t].op = "read"
                             /\ th[t].idx = idx
                          THEN @ \cup {val} ELSE @ ] ]

\* history: a read on connection c returned n bytes
GhostOnRead(c, n) ==
    IF owner[c] # 0 /\ n % FRAME_SIZE # 0
    THEN [gh EXCEPT ![owner[c]].fault = TRUE]
    ELSE gh

----------------------------------------------------------------------------
(* AsyncServer.handle_client. The coroutine runs on the event loop, so     *)
(* what it does between two awaits that suspend is one step: its start up  *)
(* to the first read, and each read with the frames of the data it got.    *)

\* the server's end of connection c is closed
Gone(c) == srv[c] \in {"closed", "failed"}

\* the finally block as it would be if it emptied the live set
SrvCloseAll(c, how) ==
    /\ clients' = {}
    /\ IF peer[c] = "closed"
       THEN /\ srv' = [srv EXCEPT ![c] = "none"]
            /\ peer' = [peer EXCEPT ![c] = "none"]
            /\ owner' = [owner EXCEPT ![c] = 0]
       ELSE /\ srv' = [srv EXCEPT ![c] = IF how = "raised" THEN "failed" ELSE "closed"]
            /\ UNCHANGED <<peer, owner>>
    /\ c2s' = [c2s EXCEPT ![c] = <<>>]

\* the end of a handler as it would be if it took the other handlers along
SrvCloseEvery(c, how) ==
    /\ clients' = {}
    /\ IF peer[c] = "closed"
       THEN /\ srv' = [d \in Conns |-> IF d = c THEN "none"
                                       ELSE IF srv[d] = "reading" THEN "closed"
                                       ELSE srv[d]]
            /\ peer' = [peer EXCEPT ![c] = "none"]
            /\ owner' = [owner EXCEPT ![c] = 0]
       ELSE /\ srv' = [d \in Conns |-> IF d = c
                                       THEN IF how = "raised" THEN "failed" ELSE "closed"
                                       ELSE IF srv[d] = "reading" THEN "closed"
                                       ELSE srv[d]]
            /\ UNCHANGED <<peer, owner>>
    /\ c2s' = [c2s EXCEPT ![c] = <<>>]

\* the finally block as it would be without clients.discard(writer)
SrvCloseKept(c, how) ==
    /\ clients' = clients
    /\ IF peer[c] = "closed"
       THEN /\ srv' = [srv EXCEPT ![c] = "none"]
            /\ peer' = [peer EXCEPT ![c] = "none"]
            /\ owner' = [owner EXCEPT ![c] = 0]
       ELSE /\ srv' = [srv EXCEPT ![c] = IF how = "raised" THEN "failed" ELSE "closed"]
            /\ UNCHANGED <<peer, owner>>
    /\ c2s' = [c2s EXCEPT ![c] = <<>>]

\* lines 62-66, the finally block: leave the live set and close the writer;
\* `how` is the way the loop was left ("return", "raised", or "eof")
SrvClose(c, how) ==
    /\ clients' = clients \ {c}
    /\ IF peer[c] = "closed"
       THEN /\ srv' = [srv EXCEPT ![c] = "none"]
            /\ peer' = [peer EXCEPT ![c] = "none"]
            /\ owner' = [owner EXCEPT ![c] = 0]
       ELSE /\ srv' = [srv EXCEPT ![c] = IF how = "raised" THEN "failed" ELSE "closed"]
            /\ UNCHANGED <<peer, owner>>
    /\ c2s' = [c2s EXCEPT ![c] = <<>>]

\* a server that would take the next connection only when no other is open
SpawnedInTurn(c) == srv[c] = "new" /\ \A d \in Conns \ {c} : srv[d] # "reading"

\* start, lines 69-72: asyncio.start_server runs handle_client as a task of
\* its own for each connection it accepts, whatever the other tasks are doing
Spawned(c) == srv[c] = "new"

\* lines 28-30: the coroutine starts and joins the live set
Accept(c) ==
    /\ Spawned(c)
    /\ srv' = [srv EXCEPT ![c] = "reading"]
    /\ clients' = clients \cup {c}
    /\ UNCHANGED <<vals, notified, consoleUp, netVars, cliVars, histVars, cfg, appVars>>

\* the server's replies as they would be with WRITE_DONE written twice,
\* and with WRITE_READY not echoing the index
ReplyDoneTwice(idx) == Pack(WRITE_DONE, idx, 0, Zero) \o Pack(WRITE_DONE, idx, 0, Zero)
ReplyReadyUnechoed(idx) == Pack(WRITE_READY, 0, 0, Zero)

\* lines 44, 52 and 57: the reply frames
ReplyAck(idx, val) == Pack(READ_ACK, idx, 0, val)
ReplyReady(idx) == Pack(WRITE_READY, idx, 0, Zero)
ReplyDone(idx) == Pack(WRITE_DONE, idx, 0, Zero)

\* lines 40-61: the frame at `off` of data, applied to the running state e
\* of the loop: the table, the last on_change call, the bytes written so
\* far, and how the loop ended ("": it goes on)
Frame(c, data, off, e) ==
    LET f == UnpackBBHI(data, off)
        cmd == UnpackBB(data, off).cmd
        idx == UnpackBB(data, off).idx
    IN  CASE cmd = READ_REQ ->
               IF GetOK(idx) /\ PackOK(READ_ACK, idx, 0, GetVal(e.vals, idx))
               THEN [e EXCEPT !.out = @ \o ReplyAck(idx, GetVal(e.vals, idx))]
               ELSE [e EXCEPT !.end = "raised"]
          [] cmd = READ_CONFIRM ->
               [e EXCEPT !.end = "return"]
          [] cmd = WRITE_REQ ->
               [e EXCEPT !.out = @ \o ReplyReady(idx)]
          [] cmd = WRITE_DATA ->
               IF SetInRange(f.idx)
               THEN [e EXCEPT !.vals = SetVals(@, f.idx, f.val),
                              !.notified = SetNotified(e.vals, @, f.idx, f.val),
                              !.stored = @ \cup {<<f.idx, f.val>>},
                              !.gh = GhostOnSet(@, c, f.idx, f.val, e.vals,
                                                SetVals(e.vals, f.idx, f.val)),
                              !.out = @ \o ReplyDone(f.idx)]
               ELSE [e EXCEPT !.end = "raised"]
          [] OTHER -> e

\* lines 38-39 and 61: the frames of data from left to right, until one
\* ends the coroutine or fewer than FRAME_SIZE bytes are left
\* the loop as it would be handling the frames of a read from right to left,
\* handling the first frame only, and going on after the coroutine returned
RECURSIVE FramesLastFirst(_, _, _, _)
FramesLastFirst(c, data, off, e) ==
    IF off + FRAME_SIZE > Len(data) THEN e
    ELSE LET rest == FramesLastFirst(c, data, off + FRAME_SIZE, e)
         IN  IF rest.end # "" THEN rest ELSE Frame(c, data, off, rest)

FramesFirstOnly(c, data, off, e) ==
    IF off + FRAME_SIZE > Len(data) THEN e ELSE Frame(c, data, off, e)

RECURSIVE FramesPastReturn(_, _, _, _)
FramesPastReturn(c, data, off, e) ==
    IF e.end = "raised" \/ off + FRAME_SIZE > Len(data) THEN e
    ELSE FramesPastReturn(c, data, off + FRAME_SIZE, Frame(c, data, off, e))

RECURSIVE Frames(_, _, _, _)
Frames(c, data, off, e) ==
    IF e.end # "" \/ off + FRAME_SIZE > Len(data) THEN e
    ELSE Frames(c, data, off + FRAME_SIZE, Frame(c, data, off, e))

\* lines 33-66: data = await reader.read(4096) returned. Empty data ends the
\* loop; otherwise the frames are handled and what is left of data is dropped
SrvRead(c) ==
    /\ srv[c] = "reading"
    /\ IF c2s[c] # <<>>
       THEN \E n \in ReadLens(Len(c2s[c])) :
              LET e == Frames(c, Take(c2s[c], n), 0,
                              [ vals |-> vals, notified |-> notified, stored |-> stored,
                                gh |-> GhostOnRead(c, n), out |-> <<>>, end |-> "" ])
              IN  /\ vals' = e.vals
                  /\ notified' = e.notified
                  /\ stored' = e.stored
                  /\ gh' = e.gh
                  /\ injected' = Injected(n, Len(c2s[c]))
                  /\ IF e.end = ""
                     THEN /\ c2s' = [c2s EXCEPT ![c] = Drop(@, n)]
                          /\ s2c' = [s2c EXCEPT ![c] = Written(c, e.out)]
                          /\ UNCHANGED <<clients, srv, peer, owner>>
                     ELSE /\ SrvClose(c, e.end)
                          /\ s2c' = [s2c EXCEPT ![c] = IF peer[c] = "closed" THEN <<>>
                                                      ELSE Written(c, e.out)]
       ELSE /\ peer[c] = "closed"
            /\ SrvClose(c, "eof")
            /\ s2c' = [s2c EXCEPT ![c] = <<>>]
            /\ UNCHANGED <<vals, notified, histVars>>
    /\ UNCHANGED <<consoleUp, cliVars, cfg, appVars>>

\* console, lines 82-90: server.var_table.set(idx, val) with the two ints
\* typed in; any exception ends the console loop
Console(idx, val) ==
    /\ consoleUp
    /\ IF SetInRange(idx)
       THEN /\ vals' = SetVals(vals, idx, val)
            /\ notified' = SetNotified(vals, notified, idx, val)
            /\ stored' = stored \cup {<<idx, val>>}
            /\ gh' = GhostOnSet(gh, 0, idx, val, vals, SetVals(vals, idx, val))
            /\ UNCHANGED <<consoleUp, injected>>
       ELSE /\ consoleUp' = FALSE
            /\ UNCHANGED <<vals, notified, histVars>>
    /\ UNCHANGED <<clients, srv, netVars, cliVars, cfg, appVars>>

----------------------------------------------------------------------------
(* The peer's side of a connection *)

FreeSlots == {c \in Conns : peer[c] = "none"}
FreeSlot == CHOOSE c \in FreeSlots : \A d \in FreeSlots : c <= d

\* connect() succeeded on slot c for thread t (0: a raw peer), and `bytes`
\* were sent; `end` is the state the peer's socket is left in
OpenConn(c, t, bytes, end) ==
    /\ peer' = [peer EXCEPT ![c] = end]
    /\ owner' = [owner EXCEPT ![c] = t]
    /\ srv' = [srv EXCEPT ![c] = "new"]
    /\ c2s' = [c2s EXCEPT ![c] = bytes]
    /\ s2c' = [s2c EXCEPT ![c] = <<>>]

\* the peer sends `last` and closes its socket; what it had not received is lost
CliClose(c, last) ==
    IF Gone(c)
    THEN /\ srv' = [srv EXCEPT ![c] = "none"]
         /\ peer' = [peer EXCEPT ![c] = "none"]
         /\ owner' = [owner EXCEPT ![c] = 0]
         /\ c2s' = [c2s EXCEPT ![c] = <<>>]
         /\ s2c' = [s2c EXCEPT ![c] = <<>>]
    ELSE /\ peer' = [peer EXCEPT ![c] = "closed"]
         /\ c2s' = [c2s EXCEPT ![c] = @ \o last]
         /\ s2c' = [s2c EXCEPT ![c] = <<>>]
         /\ UNCHANGED <<srv, owner>>

----------------------------------------------------------------------------
(* Untrusted peers: any program that dials the port and sends bytes *)

\* connections of untrusted peers the server has not yet disposed of
RawOpen == {c \in Conns : owner[c] = 0 /\ peer[c] # "none"}

RawConnect ==
    /\ Cardinality(RawOpen) < cfg.raw
    /\ FreeSlots # {}
    /\ OpenConn(FreeSlot, 0, <<>>, "open")
    /\ UNCHANGED <<vals, notified, clients, consoleUp, cliVars, histVars, cfg, appVars>>

\* the peer sends the bytes m; it keeps at most MaxInFlight bytes of
\* requests and unread replies outstanding
RawSend(c, m) ==
    /\ owner[c] = 0 /\ peer[c] = "open"
    /\ ~Gone(c)
    /\ Len(c2s[c]) + Len(s2c[c]) + Len(m) <= cfg.window
    /\ c2s' = [c2s EXCEPT ![c] = @ \o m]
    /\ UNCHANGED <<srvVars, s2c, peer, owner, cliVars, histVars, cfg, appVars>>

\* the peer reads whatever the server has written to it
RawRecv(c) ==
    /\ owner[c] = 0 /\ peer[c] = "open"
    /\ s2c[c] # <<>>
    /\ s2c' = [s2c EXCEPT ![c] = <<>>]
    /\ UNCHANGED <<srvVars, c2s, peer, owner, cliVars, histVars, cfg, appVars>>

\* the peer goes silent for good: it neither sends nor closes from now on
RawStall(c) ==
    /\ owner[c] = 0 /\ peer[c] = "open"
    /\ peer' = [peer EXCEPT ![c] = "stalled"]
    /\ UNCHANGED <<srvVars, c2s, s2c, owner, cliVars, histVars, cfg, appVars>>

RawClose(c) ==
    /\ owner[c] = 0 /\ peer[c] = "open"
    /\ CliClose(c, <<>>)
    /\ UNCHANGED <<vals, notified, clients, consoleUp, cliVars, histVars, cfg, appVars>>

----------------------------------------------------------------------------
(* The transaction clients: web/Communication.py ("web") and               *)
(* Visual_ob/Communication.py ("ob")                                       *)

Module(t) == cfg.mods[t]

\* what a call returned: k is "true", "false", "None", "int" (v is the int)
\* or "raised" (an exception reached the caller)
Res(k) == [k |-> k, v |-> Zero]
ResInt(v) == [k |-> "int", v |-> v]

IdleThread ==
    [ pc |-> "idle", op |-> "none", idx |-> 0, val |-> Zero, calls |-> 0,
      watt |-> 0, phase |-> "req", att |-> 0, conn |-> 0, buf |-> <<>>,
      result |-> Res("none"), tries |-> 0, reached |-> FALSE, slept |-> 0,
      spin |-> 0, sent |-> <<>>, changed |-> FALSE, fired |-> 0,
      order |-> 0, new |-> Zero, clean |-> TRUE ]

\* the call returns; buf keeps the last reply it received
Return(r, res) == [r EXCEPT !.pc = "idle", !.result = res, !.conn = 0]

\* _txn's "for attempt in range(RETRY_MAX)" in web; Visual_ob's _txn tries once
TxnAttempts(m) == IF m = "web" THEN RETRY_MAX ELSE 1

\* write_var's value when the loop is left: False in web, None in Visual_ob
\* (which also returns None on success)
WriteFailed(m) == IF m = "web" THEN Res("false") ELSE Res("None")
WriteDone(m) == IF m = "web" THEN Res("true") ELSE Res("None")

\* write_var, top of "for attempt in range(RETRY_MAX)": pack WRITE_REQ and
\* enter _txn; struct.error is not caught
WriteLoop(m, r) ==
    IF r.watt >= RETRY_MAX THEN Return(r, WriteFailed(m))
    ELSE IF ~PackOK(WRITE_REQ, r.idx, 0, Zero) THEN Return(r, Res("raised"))
    ELSE [r EXCEPT !.pc = "lock", !.phase = "req", !.att = 0, !.conn = 0, !.buf = <<>>]

\* write_var as it would be if it took WRITE_READY for the end of the write
WriteAfterReady(m, r, rsp) ==
    IF Len(rsp) = 8 /\ UnpackBB(rsp, 0).cmd = WRITE_READY
    THEN Return(r, WriteDone(m))
    ELSE WriteLoop(m, [r EXCEPT !.watt = @ + 1])

\* write_var after _txn returned rsp (the empty string when it failed)
WriteAfter(m, r, rsp) ==
    LET again == WriteLoop(m, [r EXCEPT !.watt = @ + 1])
    IN  IF r.phase = "req"
        THEN IF Len(rsp) = 8 /\ UnpackBB(rsp, 0).cmd = WRITE_READY
             THEN IF PackOK(WRITE_DATA, r.idx, 0, r.val)
                  THEN [r EXCEPT !.pc = "lock", !.phase = "data", !.att = 0,
                                 !.conn = 0, !.buf = <<>>]
                  ELSE Return(r, Res("raised"))
             ELSE again
        ELSE IF Len(rsp) = 8 /\ UnpackBB(rsp, 0).cmd = WRITE_DONE
             THEN Return(r, WriteDone(m))
             ELSE again

\* read_var when the attempt raised: web catches and returns -1, Visual_ob
\* lets the exception through
ReadFailed(m, r) ==
    IF m = "web" THEN Return(r, ResInt(MinusOne)) ELSE Return(r, Res("raised"))

\* read_var with the 8 reply bytes: the command is checked, the index is not
ReadAfter(m, r, rsp) ==
    IF UnpackBBHI(rsp, 0).cmd # READ_ACK THEN ReadFailed(m, r)
    ELSE Return(r, ResInt(UnpackBBHI(rsp, 0).val))

\* the pause as it would be with a fixed delay between attempts
BackoffFixed(attempt) == 1

\* line 32: time.sleep(0.5 * (attempt + 1)), in units of 0.5 s
Backoff(attempt) == attempt + 1

\* an attempt failed with an exception, the socket is closed: _txn sleeps
\* 0.5 * (attempt + 1) s and dials again, or gives up with the empty string
Failed(m, r) ==
    IF r.op = "read" THEN ReadFailed(m, r)
    ELSE IF r.att + 1 < TxnAttempts(m)
         THEN [r EXCEPT !.pc = "dial", !.att = @ + 1, !.slept = @ + Backoff(r.att),
                        !.conn = 0, !.buf = <<>>]
         ELSE WriteAfter(m, r, <<>>)

\* the frame an attempt sends after connecting
Request(r) ==
    IF r.op = "read" THEN Pack(READ_REQ, r.idx, 0, Zero)
    ELSE IF r.phase = "req" THEN Pack(WRITE_REQ, r.idx, 0, Zero)
    ELSE Pack(WRITE_DATA, r.idx, 0, r.val)

\* _sock_lock is held exactly inside _txn; read_var never takes it
Holds(r) == r.op = "write" /\ r.pc \in {"dial", "recv"}

LockAfter(t, r) ==
    [sockLock EXCEPT ![Module(t)] = IF Holds(r) THEN t ELSE IF @ = t THEN 0 ELSE @]

\* history: thread t's record becomes r
GhostOnStep(t, r, fault) ==
    [gh EXCEPT ![t].fault = @ \/ fault,
               ![t].fresh = IF r.pc = "idle" /\ r.op = "write" /\ th[t].pc # "idle"
                            THEN IF r.result.k \in {"true", "None"} /\ r.watt < RETRY_MAX
                                    /\ gh[t].applied = "yes"
                                 THEN <<r.idx, r.val>> ELSE <<>>
                            ELSE @,
               ![t].acked = IF r.pc = "idle" /\ r.op = "write" /\ th[t].pc # "idle"
                               /\ r.result.k \in {"true", "None"} /\ r.watt < RETRY_MAX
                               /\ gh[t].applied # "no"
                            THEN @ \cup {r.idx} ELSE @]

\* history: the values a read_var(idx) that starts now may return without
\* going back behind a write the service has acknowledged: the register's
\* present value when some write_var(idx, _) has returned after its
\* WRITE_DONE, and no constraint (the empty set) when none has
Acknowledged(idx) ==
    IF \E u \in Threads : idx \in gh[u].acked THEN {vals[idx]} ELSE {}

\* an untrusted peer has sent WRITE_REQ, has its WRITE_READY waiting
\* unread, and has gone silent with the connection open
HungWriter(c) ==
    /\ owner[c] = 0 /\ peer[c] = "stalled"
    /\ srv[c] = "reading" /\ c2s[c] = <<>>
    /\ \E f \in FramesOf(s2c[c]) : f.cmd = WRITE_READY

\* a caller invokes read_var(idx) or write_var(idx, val)
Call(t, op, idx, val) ==
    /\ Module(t) # "off"
    /\ th[t].pc = "idle" /\ th[t].calls < Len(cfg.prog[t])
    /\ op \in cfg.prog[t][th[t].calls + 1]
    /\ LET r0 == [IdleThread EXCEPT !.op = op, !.idx = idx, !.val = val,
                                    !.calls = th[t].calls + 1]
           r == IF op = "write" THEN WriteLoop(Module(t), r0)
                ELSE [r0 EXCEPT !.pc = "dial"]
       IN  /\ th' = [th EXCEPT ![t] = r]
           /\ gh' = [gh EXCEPT ![t] = [applied |-> "no", fault |-> FALSE,
                                       fresh |-> IF op = "read" THEN @.fresh ELSE <<>>,
                                       floor |-> IF op = "read" THEN Acknowledged(idx) ELSE {},
                                       acked |-> @.acked,
                                       hung |-> \E c \in Conns : HungWriter(c)]]
    /\ owner' = [c \in Conns |-> IF owner[c] = t THEN 0 ELSE owner[c]]
    /\ UNCHANGED <<srvVars, c2s, s2c, peer, sockLock, stored, injected, cfg, appVars>>

\* _txn: with _sock_lock
Lock(t) ==
    /\ th[t].pc = "lock"
    /\ sockLock[Module(t)] = 0
    /\ th' = [th EXCEPT ![t].pc = "dial"]
    /\ sockLock' = [sockLock EXCEPT ![Module(t)] = t]
    /\ UNCHANGED <<srvVars, netVars, histVars, cfg, appVars>>

\* connect() succeeds and the request is sent; read_var packs its request
\* after connecting, so a struct.error there leaves an empty connection
Dial(t) ==
    /\ th[t].pc = "dial"
    /\ ~cfg.down
    /\ FreeSlots # {}
    /\ LET r == [th[t] EXCEPT !.tries = @ + 1, !.reached = TRUE]
           m == Module(t)
           c == FreeSlot
       IN  IF r.op = "read" /\ ~PackOK(READ_REQ, r.idx, 0, Zero)
           THEN /\ OpenConn(c, t, <<>>, "closed")
                /\ th' = [th EXCEPT ![t] = ReadFailed(m, r)]
                /\ gh' = gh
           ELSE /\ OpenConn(c, t, Request(r), "open")
                /\ th' = [th EXCEPT ![t] = [r EXCEPT !.pc = "recv", !.conn = c]]
                /\ gh' = gh
    /\ UNCHANGED <<vals, notified, clients, consoleUp, sockLock, stored, injected, cfg, appVars>>

\* connect() fails: the server is unreachable
DialFail(t) ==
    /\ th[t].pc = "dial"
    /\ cfg.down \/ injected < cfg.faults
    /\ LET r == Failed(Module(t), [th[t] EXCEPT !.tries = @ + 1])
       IN  /\ th' = [th EXCEPT ![t] = r]
           /\ sockLock' = LockAfter(t, r)
           /\ gh' = GhostOnStep(t, r, TRUE)
    /\ injected' = IF cfg.down THEN injected ELSE injected + 1
    /\ UNCHANGED <<srvVars, netVars, stored, cfg, appVars>>

\* what recv(need) may return when `avail` bytes are buffered
RecvLens(avail, need) ==
    LET most == IF avail < need THEN avail ELSE need
    IN  {most} \cup {k \in cfg.frag \cup cfg.cfrag : k < most /\ injected < cfg.faults}

\* the recv loop as it would be if it put each chunk in front of buf
ReassembleInFront(buf, chunk) == chunk \o buf

\* the recv loop: buf += chunk
Reassemble(buf, chunk) == buf \o chunk

\* the recv loop: s.recv(expect - len(buf)) returned a non-empty chunk; with
\* the 8th byte the attempt ends, read_var confirms, and the socket is closed
Recv(t) ==
    /\ th[t].pc = "recv"
    /\ s2c[th[t].conn] # <<>>
    /\ LET c == th[t].conn
           m == Module(t)
       IN  \E k \in RecvLens(Len(s2c[c]), FRAME_SIZE - Len(th[t].buf)) :
             LET buf == Reassemble(th[t].buf, Take(s2c[c], k))
                 got == [th[t] EXCEPT !.buf = buf]
                 r == IF th[t].op = "read" THEN ReadAfter(m, got, buf)
                      ELSE WriteAfter(m, got, buf)
                 confirm == IF th[t].op = "read" /\ r.result.k = "int" /\ r.result.v # MinusOne
                            THEN Pack(READ_CONFIRM, th[t].idx, 0, Zero) ELSE <<>>
             IN  IF Len(buf) < FRAME_SIZE
                 THEN /\ th' = [th EXCEPT ![t].buf = buf]
                      /\ s2c' = [s2c EXCEPT ![c] = Drop(@, k)]
                      /\ injected' = Injected(k, Len(s2c[c]))
                      /\ UNCHANGED <<srv, c2s, peer, owner, sockLock, gh>>
                 ELSE /\ th' = [th EXCEPT ![t] = r]
                      /\ CliClose(c, confirm)
                      /\ sockLock' = LockAfter(t, r)
                      /\ gh' = GhostOnStep(t, r, FALSE)
                      /\ injected' = injected
    /\ UNCHANGED <<vals, notified, clients, consoleUp, stored, cfg, appVars>>

\* recv returned the empty string: the server closed the connection. web
\* raises ConnectionError; Visual_ob adds nothing to buf and calls recv again
RecvEOF(t) ==
    /\ th[t].pc = "recv"
    /\ s2c[th[t].conn] = <<>> /\ Gone(th[t].conn)
    /\ IF Module(t) = "web"
       THEN LET r == Failed("web", th[t])
            IN  /\ th' = [th EXCEPT ![t] = r]
                /\ CliClose(th[t].conn, <<>>)
                /\ sockLock' = LockAfter(t, r)
                /\ gh' = GhostOnStep(t, r, FALSE)
       ELSE /\ th' = [th EXCEPT ![t].spin = 1 - @]
            /\ UNCHANGED <<srv, netVars, sockLock, gh>>
    /\ UNCHANGED <<vals, notified, clients, consoleUp, stored, injected, cfg, appVars>>

\* recv raised socket.timeout: nothing arrived within TIMEOUT
Timeout(t) ==
    /\ th[t].pc = "recv"
    /\ injected < cfg.faults
    /\ s2c[th[t].conn] = <<>> /\ ~Gone(th[t].conn)
    /\ LET r == Failed(Module(t), th[t])
       IN  /\ th' = [th EXCEPT ![t] = r]
           /\ CliClose(th[t].conn, <<>>)
           /\ sockLock' = LockAfter(t, r)
           /\ gh' = GhostOnStep(t, r, TRUE)
    /\ injected' = injected + 1
    /\ UNCHANGED <<vals, notified, clients, consoleUp, stored, cfg, appVars>>

----------------------------------------------------------------------------
(* Another program listening at the configured HOST:PORT: the clients take *)
(* whatever 8 bytes it answers                                             *)

\* it reads the request of connection c and answers with the bytes m
ForeignReply(c, m) ==
    /\ srv[c] = "new" /\ peer[c] = "open"
    /\ Len(c2s[c]) >= FRAME_SIZE
    /\ srv' = [srv EXCEPT ![c] = "reading"]
    /\ c2s' = [c2s EXCEPT ![c] = <<>>]
    /\ s2c' = [s2c EXCEPT ![c] = m]
    /\ UNCHANGED <<vals, notified, clients, consoleUp, peer, owner, cliVars, histVars, cfg, appVars>>

\* it sees the client's end closed and closes its own
ForeignClose(c) ==
    /\ srv[c] \in {"new", "reading"} /\ peer[c] = "closed"
    /\ srv' = [srv EXCEPT ![c] = "none"]
    /\ peer' = [peer EXCEPT ![c] = "none"]
    /\ owner' = [owner EXCEPT ![c] = 0]
    /\ c2s' = [c2s EXCEPT ![c] = <<>>]
    /\ s2c' = [s2c EXCEPT ![c] = <<>>]
    /\ UNCHANGED <<vals, notified, clients, consoleUp, cliVars, histVars, cfg, appVars>>

----------------------------------------------------------------------------
(* A program that holds a VarTable and calls it directly; th[t] keeps its  *)
(* last call: op, the arguments, and what the call returned                *)

\* table.get(idx)
TableGet(t, idx) ==
    /\ th[t].calls < MaxOps
    /\ th' = [th EXCEPT ![t] =
                [IdleThread EXCEPT !.op = "get", !.idx = idx,
                                   !.calls = th[t].calls + 1,
                                   !.result = IF GetOK(idx) THEN ResInt(GetVal(vals, idx))
                                              ELSE Res("raised")]]
    /\ UNCHANGED <<srvVars, netVars, sockLock, histVars, cfg, appVars>>

\* table.set(idx, val)
TableSet(t, idx, val) ==
    /\ th[t].calls < MaxOps
    /\ IF SetInRange(idx)
       THEN /\ vals' = SetVals(vals, idx, val)
            /\ notified' = SetNotified(vals, notified, idx, val)
            /\ stored' = stored \cup {<<idx, val>>}
       ELSE UNCHANGED <<vals, notified, stored>>
    /\ th' = [th EXCEPT ![t] =
                [IdleThread EXCEPT !.op = "set", !.idx = idx, !.val = val,
                                   !.calls = th[t].calls + 1,
                                   !.result = IF SetInRange(idx) THEN Res("None")
                                              ELSE Res("raised")]]
    /\ UNCHANGED <<clients, srv, consoleUp, netVars, sockLock, gh, injected, cfg, appVars>>

----------------------------------------------------------------------------
(* Threads that share a VarTable and call set on it, step by step: the     *)
(* range check, the comparison, the with block, and the on_change call.    *)
(* th[t] keeps whether the write of the call changed the register          *)
(* (changed) and how often the call invoked on_change (fired)              *)

\* the holder of _lock as it would be if the with block kept the lock
\* when thread t leaves it
LockKept(t) == t

\* lines 21-22: the holder of _lock when thread t has left the with block
LockReleased(t) == 0

\* lines 14-15: the call starts with the range check
SetCall(t, idx, val) ==
    /\ Module(t) = "set" /\ th[t].pc = "idle"
    /\ th[t].calls < Len(cfg.prog[t])
    /\ th' = [th EXCEPT ![t] =
                [IdleThread EXCEPT !.op = "set", !.idx = idx, !.val = val,
                                   !.calls = th[t].calls + 1,
                                   !.pc = IF SetInRange(idx) THEN "compare" ELSE "idle",
                                   !.result = IF SetInRange(idx) THEN Res("none")
                                              ELSE Res("raised")]]
    /\ UNCHANGED <<srvVars, netVars, sockLock, histVars, cfg, appVars>>

\* lines 18-19: the comparison, made before the lock is taken
SetCompare(t) ==
    /\ Module(t) = "set" /\ th[t].pc = "compare"
    /\ th' = [th EXCEPT ![t] =
                IF GetVal(vals, th[t].idx) = th[t].val
                THEN [@ EXCEPT !.pc = "idle", !.result = Res("None")]
                ELSE [@ EXCEPT !.pc = "acquire"]]
    /\ UNCHANGED <<srvVars, netVars, sockLock, histVars, cfg, appVars>>

\* line 21: with self._lock
SetAcquire(t) ==
    /\ Module(t) = "set" /\ th[t].pc = "acquire"
    /\ sockLock["table"] \in {0, t}
    /\ sockLock' = [sockLock EXCEPT !["table"] = t]
    /\ th' = [th EXCEPT ![t].pc = "write"]
    /\ UNCHANGED <<srvVars, netVars, histVars, cfg, appVars>>

\* line 22: the write, and the end of the with block
SetStore(t) ==
    /\ Module(t) = "set" /\ th[t].pc = "write"
    /\ vals' = SetVals(vals, th[t].idx, th[t].val)
    /\ stored' = stored \cup {<<th[t].idx, th[t].val>>}
    /\ sockLock' = [sockLock EXCEPT !["table"] = LockReleased(t)]
    /\ th' = [th EXCEPT ![t].pc = "notify",
                        ![t].changed = (GetVal(vals, th[t].idx) # th[t].val)]
    /\ UNCHANGED <<notified, clients, srv, consoleUp, netVars, gh, injected, cfg, appVars>>

\* lines 25-26: on_change(idx, val); the handler returns (ok = TRUE) or
\* raises, and then so does set
SetNotify(t, ok) ==
    /\ Module(t) = "set" /\ th[t].pc = "notify"
    /\ notified' = <<th[t].idx, th[t].val>>
    /\ th' = [th EXCEPT ![t].pc = "idle", ![t].fired = @ + 1,
                        ![t].result = IF ok THEN Res("None") ELSE Res("raised")]
    /\ UNCHANGED <<vals, clients, srv, consoleUp, netVars, sockLock, histVars, cfg, appVars>>

----------------------------------------------------------------------------
(* A probing peer: it dials the port, sends a burst of frames in one go,   *)
(* and reads what comes back. th[t] keeps the burst (sent) and the replies *)
(* read so far (buf)                                                       *)

ProbeSend(t, burst) ==
    /\ Module(t) = "probe" /\ th[t].pc = "idle"
    /\ FreeSlots # {}
    /\ OpenConn(FreeSlot, t, burst, "open")
    /\ th' = [th EXCEPT ![t] =
                [IdleThread EXCEPT !.pc = "talk", !.op = "probe",
                                   !.calls = th[t].calls + 1,
                                   !.conn = FreeSlot, !.sent = burst]]
    /\ UNCHANGED <<vals, notified, clients, consoleUp, sockLock, histVars, cfg, appVars>>

ProbeRecv(t) ==
    /\ Module(t) = "probe" /\ th[t].pc = "talk"
    /\ s2c[th[t].conn] # <<>>
    /\ th' = [th EXCEPT ![t].buf = @ \o s2c[th[t].conn]]
    /\ s2c' = [s2c EXCEPT ![th[t].conn] = <<>>]
    /\ UNCHANGED <<srvVars, c2s, peer, owner, sockLock, histVars, cfg, appVars>>

ProbeClose(t) ==
    /\ Module(t) = "probe" /\ th[t].pc = "talk"
    /\ CliClose(th[t].conn, <<>>)
    /\ th' = [th EXCEPT ![t].pc = "idle", ![t].conn = 0]
    /\ UNCHANGED <<vals, notified, clients, consoleUp, sockLock, histVars, cfg, appVars>>

----------------------------------------------------------------------------
(* The order layer: exec_order of web/main.py. FastAPI runs the endpoint   *)
(* in a thread pool, one thread per request. read_var and write_var are    *)
(* the blocking calls between which a request can be overtaken; each is    *)
(* one step here, reading or setting the register at the server. th[t]     *)
(* keeps the request: action (op), order, the product's register (idx),    *)
(* old_val (val), new_val (new), and whether every read_var and write_var  *)
(* of the request succeeded (clean)                                        *)

\* Python ints as <<hi, lo>> pairs, hi * 65536 + lo with lo in 0..65535
Norm(hi, lo) == <<hi + (lo \div 65536), lo % 65536>>
Plus(v, q) == Norm(v[1], v[2] + q)
Minus(v, q) == Norm(v[1], v[2] - q)
Max0(v) == IF v[1] < 0 THEN Zero ELSE v

\* EXEC_REG_MAP, line 27: the register of the k-th product
EXEC_REG_MAP(k) == 15 + k
ProductOf(reg) == reg - 15

\* new_val as it would be without the max(0, ...)
NewValUnfloored(action, old, quantity) ==
    IF action = "produce" THEN Plus(old, quantity) ELSE Minus(old, quantity)

\* lines 126-129
NewVal(action, old, quantity) ==
    IF action = "produce" THEN Plus(old, quantity) ELSE Max0(Minus(old, quantity))

\* lines 119-122: the first product after the k-th with a quantity above 0
\* (0: none)
NextProduct(q, k) ==
    IF \E j \in (k + 1)..Len(q) : q[j] > 0
    THEN CHOOSE j \in (k + 1)..Len(q) : q[j] > 0 /\ \A i \in (k + 1)..(j - 1) : q[i] <= 0
    ELSE 0

\* total_quantity, lines 43-44
TotalQuantity(q) == q[1] + q[2] + q[3]

\* the request goes on with the product after the k-th, or leaves the loop
ExecOn(r, k) ==
    LET j == NextProduct(cfg.orders[r.order], k)
    IN  IF j = 0 THEN [r EXCEPT !.pc = "status"]
        ELSE [r EXCEPT !.pc = "read", !.idx = EXEC_REG_MAP(j)]

\* lines 103-115: POST /api/orders/{o}/exec?action=...; the order is looked
\* up and its status checked
ExecCall(t, o, action) ==
    /\ Module(t) = "exec" /\ th[t].pc = "idle"
    /\ LET r == [IdleThread EXCEPT !.op = action, !.order = o,
                                   !.calls = th[t].calls + 1]
           refused ==
               IF o \notin DOMAIN orders THEN "404"
               ELSE IF action = "produce" /\ orders[o].status # "pending" THEN "409"
               ELSE IF action = "return" /\ orders[o].status # "executed" THEN "409"
               ELSE IF TotalQuantity(cfg.orders[o]) = 0 THEN "400"
               ELSE ""
       IN  IF refused # ""
           THEN /\ th' = [th EXCEPT ![t] = [r EXCEPT !.result = Res(refused)]]
                /\ orders' = orders
           ELSE /\ th' = [th EXCEPT ![t] = ExecOn(r, 0)]
                /\ orders' = [orders EXCEPT
                                ![o].made = IF action = "produce" THEN @ + 1 ELSE @,
                                ![o].back = IF action = "return" THEN @ + 1 ELSE @]
    /\ UNCHANGED <<srvVars, netVars, sockLock, histVars, cfg, bs>>

\* lines 124-129: old_val = read_var(reg), which is -1 when the read
\* failed or the register's value does not fit a READ_ACK
ExecRead(t, ok) ==
    /\ Module(t) = "exec" /\ th[t].pc = "read"
    /\ LET got == ok /\ IsU32(vals[th[t].idx])
           old == IF got THEN vals[th[t].idx] ELSE MinusOne
           q == cfg.orders[th[t].order][ProductOf(th[t].idx)]
       IN  th' = [th EXCEPT ![t].pc = "write", ![t].val = old,
                            ![t].new = NewVal(th[t].op, old, q),
                            ![t].clean = @ /\ got]
    /\ UNCHANGED <<srvVars, netVars, sockLock, histVars, cfg, appVars>>

\* line 131: write_var(reg, new_val). struct.error reaches the caller; a
\* False is ignored
ExecWrite(t, ok) ==
    /\ Module(t) = "exec" /\ th[t].pc = "write"
    /\ LET reg == th[t].idx
           new == th[t].new
       IN  IF ~PackOK(WRITE_DATA, reg, 0, new)
           THEN /\ th' = [th EXCEPT ![t] = [@ EXCEPT !.pc = "idle",
                                                      !.result = Res("raised")]]
                /\ UNCHANGED <<vals, notified, stored, gh>>
           ELSE /\ th' = [th EXCEPT ![t] =
                            ExecOn([@ EXCEPT !.clean = @ /\ ok], ProductOf(reg))]
                /\ IF ok
                   THEN /\ vals' = SetVals(vals, reg, new)
                        /\ notified' = SetNotified(vals, notified, reg, new)
                        /\ stored' = stored \cup {<<reg, new>>}
                        /\ gh' = GhostOnSet(gh, 0, reg, new, vals, SetVals(vals, reg, new))
                   ELSE UNCHANGED <<vals, notified, stored, gh>>
    /\ UNCHANGED <<clients, srv, consoleUp, netVars, sockLock, injected, cfg, appVars>>

\* lines 141-148: the status is updated and the orders are saved
ExecStatus(t) ==
    /\ Module(t) = "exec" /\ th[t].pc = "status"
    /\ orders' = [orders EXCEPT ![th[t].order].status =
                     IF th[t].op = "produce" THEN "executed"
                     ELSE IF th[t].op = "return" THEN "returned"
                     ELSE @]
    /\ th' = [th EXCEPT ![t].pc = "idle", ![t].result = Res("ok")]
    /\ UNCHANGED <<srvVars, netVars, sockLock, histVars, cfg, bs>>

----------------------------------------------------------------------------
(* ByteStream (server/byte_stream.py) *)

\* __init__, lines 8-16: the buffers, the flag, and the events the socket
\* is registered for (wr: EVENT_WRITE among them); accepted and wire are
\* history
NewStream ==
    [ rx |-> <<>>, tx |-> <<>>, closed |-> FALSE, wr |-> FALSE,
      accepted |-> <<>>, wire |-> <<>> ]

\* _tx_buf as it would be if the bytes sent stayed in it
TxKept(tx, sent) == tx

\* line 40: del self._tx_buf[:sent]
TxAfter(tx, sent) == Drop(tx, sent)

\* send(data), lines 56-70
BsSend(data) ==
    /\ Len(bs.accepted) + Len(data) <= MaxStream
    /\ bs' = IF data = <<>> \/ bs.closed THEN bs
             ELSE [bs EXCEPT !.tx = @ \o data, !.accepted = @ \o data, !.wr = TRUE]
    /\ UNCHANGED <<srvVars, netVars, cliVars, histVars, cfg, orders>>

\* _io_cb(mask), lines 18-46. rd is what sock.recv does when the mask has
\* EVENT_READ: it returns a chunk, returns the empty string, or raises
\* BlockingIOError or ConnectionError ("err"). sent is what sock.send
\* returns when the mask has EVENT_WRITE and _tx_buf is not empty, 0 standing
\* for one of the two exceptions
BsIoCb(mask, rd, chunk, sent) ==
    /\ Len(bs.rx) + Len(chunk) <= MaxStream
    /\ sent <= Len(bs.tx)
    /\ LET read == IF "r" \in mask /\ rd = "data"
                   THEN [bs EXCEPT !.rx = @ \o chunk] ELSE bs
           written == IF "w" \in mask /\ read.tx # <<>>
                      THEN LET tx == TxAfter(read.tx, sent)
                           IN  [read EXCEPT !.wire = @ \o Take(read.tx, sent),
                                            !.tx = tx,
                                            !.wr = IF tx = <<>> THEN FALSE ELSE @]
                      ELSE read
       IN  bs' = IF bs.closed THEN bs
                 ELSE IF "r" \in mask /\ rd = "eof"
                      THEN [bs EXCEPT !.closed = TRUE, !.wr = FALSE]
                 ELSE written
    /\ UNCHANGED <<srvVars, netVars, cliVars, histVars, cfg, orders>>

\* recv(), lines 48-54
BsRecv ==
    /\ bs' = [bs EXCEPT !.rx = <<>>]
    /\ UNCHANGED <<srvVars, netVars, cliVars, histVars, cfg, orders>>

\* close(), lines 72-86
BsClose ==
    /\ bs' = IF bs.closed THEN bs ELSE [bs EXCEPT !.closed = TRUE, !.wr = FALSE]
    /\ UNCHANGED <<srvVars, netVars, cliVars, histVars, cfg, orders>>

----------------------------------------------------------------------------
(* Specifications *)

InitWith(config) ==
    /\ vals = [i \in 0..(Size - 1) |-> Zero]
    /\ notified = <<>>
    /\ clients = {}
    /\ srv = [c \in Conns |-> "none"]
    /\ consoleUp = TRUE
    /\ c2s = [c \in Conns |-> <<>>]
    /\ s2c = [c \in Conns |-> <<>>]
    /\ peer = [c \in Conns |-> "none"]
    /\ owner = [c \in Conns |-> 0]
    /\ th = [t \in Threads |-> IdleThread]
    /\ sockLock = [m \in {"web", "ob", "table"} |-> 0]
    /\ stored = {}
    /\ gh = [t \in Threads |-> [applied |-> "no", fresh |-> <<>>, fault |-> FALSE,
                                 floor |-> {}, acked |-> {}, hung |-> FALSE]]
    /\ injected = 0
    /\ cfg = config
    /\ orders = [o \in DOMAIN config.orders |->
                   [status |-> "pending", made |-> 0, back |-> 0]]
    /\ bs = NewStream

Server == \E c \in Conns : Accept(c) \/ SrvRead(c)

\* read_var takes no val: its calls carry Zero in that place
Callers ==
    \E t \in Threads, idx \in cfg.idxs :
        \/ \E val \in cfg.vals : Call(t, "write", idx, val)
        \/ Call(t, "read", idx, Zero)

Client ==
    \E t \in Threads : Lock(t) \/ Dial(t) \/ Recv(t) \/ RecvEOF(t)

Transport == \E t \in Threads : DialFail(t) \/ Timeout(t)

Peers ==
    \/ RawConnect
    \/ \E c \in Conns :
          \/ \E m \in cfg.rawMsgs : RawSend(c, m)
          \/ RawRecv(c)
          \/ RawStall(c)
          \/ RawClose(c)

Operator == \E e \in cfg.console : Console(e[1], e[2])

Probes ==
    \E t \in Threads :
        \/ /\ th[t].calls < Len(cfg.prog[t])
           /\ \E burst \in cfg.prog[t][th[t].calls + 1] : ProbeSend(t, burst)
        \/ ProbeRecv(t)
        \/ ProbeClose(t)

Setters ==
    \E t \in Threads :
        \/ \E idx \in cfg.idxs, val \in cfg.vals : SetCall(t, idx, val)
        \/ SetCompare(t)
        \/ SetAcquire(t)
        \/ SetStore(t)
        \/ \E ok \in BOOLEAN : SetNotify(t, ok)

Requests ==
    \E t \in Threads :
        \/ /\ th[t].calls < Len(cfg.prog[t])
           /\ \E o \in 0..Len(cfg.orders), action \in cfg.prog[t][th[t].calls + 1] :
                 ExecCall(t, o, action)
        \/ \E ok \in {TRUE} \cup {~cfg.lossy} : ExecRead(t, ok) \/ ExecWrite(t, ok)
        \/ ExecStatus(t)

Stream ==
    \/ \E data \in cfg.data : BsSend(data)
    \/ \E mask \in {{"r"}, {"w"}, {"r", "w"}}, rd \in {"data", "eof", "err"},
          chunk \in cfg.data \ {<<>>}, sent \in 0..MaxStream :
            BsIoCb(mask, rd, chunk, sent)
    \/ BsRecv
    \/ BsClose

\* the bursts of one to n frames out of `frames`
RECURSIVE Bursts(_, _)
Bursts(frames, n) ==
    IF n = 1 THEN frames
    ELSE LET B == Bursts(frames, n - 1)
         IN  B \cup {b \o f : b \in B, f \in frames}

Either == {"read", "write"}

\* the scenario of a run; the fields a specification does not set
Scenario ==
    [ mods |-> (1 :> "off" @@ 2 :> "off"),   \* the module each thread runs
      prog |-> (1 :> <<>> @@ 2 :> <<>>),     \* the calls each thread makes, in order
      idxs |-> {11},                         \* idx arguments
      vals |-> {Zero, <<0, 7500>>},          \* val arguments
      faults |-> 0,                          \* transport anomalies allowed
      down |-> FALSE,                        \* the server is not running
      frag |-> {},                           \* where a delivery may be cut
      cfrag |-> {},                          \* where else one to a client may be cut
      raw |-> 0,                             \* untrusted peers connected at a time
      rawMsgs |-> {},                        \* what they send
      window |-> MaxInFlight,                \* bytes they keep outstanding
      console |-> {},                        \* <<idx, val>> typed at the console
      replies |-> {},                        \* what another program at HOST:PORT answers
      orders |-> <<>>,                       \* per order: quantity_a, quantity_b, quantity_c
      actions |-> {},                        \* action arguments of exec requests
      lossy |-> FALSE,                       \* read_var and write_var may fail
      data |-> {} ]                          \* what is passed to ByteStream.send

Wide == {<<0, 7500>>, <<65535, 65535>>, <<65536, 0>>, MinusOne}

\* Spec: one web caller that makes a call and then a read_var, against a
\* running server over a transport that may refuse, time out and split
\* deliveries
Init ==
    InitWith([Scenario EXCEPT !.mods = (1 :> "web" @@ 2 :> "off"),
                              !.prog = (1 :> <<Either, {"read"}>> @@ 2 :> <<>>),
                              !.idxs = {11, 150},
                              !.vals = {<<0, 7500>>, <<65535, 65535>>},
                              !.faults = MaxFaults,
                              !.frag = {3}])

Next == Server \/ Callers \/ Client \/ Transport

Spec == Init /\ [][Next]_vars

\* SpecArgs: one web caller, one call, any int for idx and val
InitArgs ==
    InitWith([Scenario EXCEPT !.mods = (1 :> "web" @@ 2 :> "off"),
                              !.prog = (1 :> <<Either>> @@ 2 :> <<>>),
                              !.idxs = {-1, 11, 150, 256},
                              !.vals = Wide,
                              !.faults = MaxFaults,
                              !.frag = {3}])

SpecArgs == InitArgs /\ [][Next]_vars

\* SpecOb: the same for a Visual_ob caller
InitOb ==
    InitWith([Scenario EXCEPT !.mods = (1 :> "ob" @@ 2 :> "off"),
                              !.prog = (1 :> <<Either>> @@ 2 :> <<>>),
                              !.idxs = {-1, 11, 150, 256},
                              !.vals = Wide,
                              !.faults = MaxFaults,
                              !.frag = {3}])

SpecOb == InitOb /\ [][Next]_vars

\* SpecDown: a web caller and a Visual_ob caller while no server is running
InitDown ==
    InitWith([Scenario EXCEPT !.mods = (1 :> "web" @@ 2 :> "ob"),
                              !.prog = (1 :> <<Either, Either>> @@ 2 :> <<Either, Either>>),
                              !.idxs = {11, 150},
                              !.down = TRUE])

NextDown == Callers \/ \E t \in Threads : Lock(t) \/ DialFail(t)

SpecDown == InitDown /\ [][NextDown]_vars

\* SpecPair: two web callers on one register, one writing and then reading,
\* the other making any call, and the console setting the same register,
\* over a transport without anomalies
InitPair ==
    InitWith([Scenario EXCEPT !.mods = (1 :> "web" @@ 2 :> "web"),
                              !.prog = (1 :> <<{"write"}, {"read"}>> @@ 2 :> <<Either>>),
                              !.vals = {<<0, 7500>>, <<65535, 65535>>},
                              !.console = {<<11, <<0, 9>>>>}])

NextPair ==
    Server \/ Callers \/ Operator \/ \E t \in Threads : Lock(t) \/ Dial(t) \/ Recv(t)

SpecPair == InitPair /\ [][NextPair]_vars

\* SpecPeers: a web caller making one call, next to an untrusted peer that
\* sends frames and junk in any order, goes silent or closes, and an
\* operator who also types values that do not fit
InitPeers ==
    InitWith([Scenario EXCEPT !.mods = (1 :> "web" @@ 2 :> "off"),
                              !.prog = (1 :> <<Either>> @@ 2 :> <<>>),
                              !.vals = {<<0, 7500>>},
                              !.raw = 1,
                              !.rawMsgs = { Pack(READ_REQ, 11, 0, Zero),
                                            Pack(READ_REQ, 150, 0, Zero),
                                            Pack(READ_CONFIRM, 11, 0, Zero),
                                            Pack(WRITE_REQ, 11, 0, Zero),
                                            Pack(WRITE_DATA, 11, 0, <<0, 9>>),
                                            Pack(WRITE_DATA, 150, 0, <<0, 9>>),
                                            <<255, 1, 2>> },
                              !.console = {<<11, MinusOne>>, <<100, Zero>>}])

NextPeers ==
    \/ Server \/ Callers \/ Peers \/ Operator
    \/ \E t \in Threads : Lock(t) \/ Dial(t) \/ Recv(t) \/ RecvEOF(t)

SpecPeers == InitPeers /\ [][NextPeers]_vars

\* FairPeers: a web caller making one call, next to an untrusted peer, over
\* a transport without anomalies; the server's event loop and the caller's
\* thread keep running
InitHang ==
    InitWith([Scenario EXCEPT !.mods = (1 :> "web" @@ 2 :> "off"),
                              !.prog = (1 :> <<Either>> @@ 2 :> <<>>),
                              !.vals = {<<0, 7500>>},
                              !.raw = 1,
                              !.rawMsgs = { Pack(READ_REQ, 150, 0, Zero),
                                            Pack(WRITE_REQ, 11, 0, Zero),
                                            Pack(WRITE_DATA, 11, 0, <<0, 9>>) }])

NextHang ==
    Server \/ Callers \/ Peers \/ \E t \in Threads : Lock(t) \/ Dial(t) \/ Recv(t)

FairPeers ==
    InitHang /\ [][NextHang]_vars
    /\ \A c \in Conns : WF_vars(Accept(c)) /\ WF_vars(SrvRead(c))
    /\ \A t \in Threads : WF_vars(Lock(t)) /\ WF_vars(Dial(t)) /\ WF_vars(Recv(t))

\* FairCalls: a Visual_ob caller and a web caller, one call each, against a
\* running server over a transport without anomalies; the event loop and
\* both callers' threads keep running
InitCalls ==
    InitWith([Scenario EXCEPT !.mods = (1 :> "ob" @@ 2 :> "web"),
                              !.prog = (1 :> <<Either>> @@ 2 :> <<Either>>),
                              !.idxs = {11, 150},
                              !.vals = {<<0, 7500>>}])

NextCalls ==
    Server \/ Callers \/ \E t \in Threads : Lock(t) \/ Dial(t) \/ Recv(t) \/ RecvEOF(t)

FairCalls ==
    InitCalls /\ [][NextCalls]_vars
    /\ \A c \in Conns : WF_vars(Accept(c)) /\ WF_vars(SrvRead(c))
    /\ \A t \in Threads : /\ WF_vars(Lock(t)) /\ WF_vars(Dial(t))
                          /\ WF_vars(Recv(t)) /\ WF_vars(RecvEOF(t))

\* SpecAlias: a web caller making two calls with indices outside the
\* table, while the operator fills the registers such indices could be
\* mistaken for
InitAlias ==
    InitWith([Scenario EXCEPT !.mods = (1 :> "web" @@ 2 :> "off"),
                              !.prog = (1 :> <<Either, Either>> @@ 2 :> <<>>),
                              !.idxs = {-1, 150, 256},
                              !.vals = {<<0, 7500>>},
                              !.console = {<<0, <<0, 7>>>>, <<50, <<0, 7>>>>,
                                           <<99, <<0, 7>>>>}])

NextAlias ==
    \/ Server \/ Callers \/ Operator
    \/ \E t \in Threads : Lock(t) \/ Dial(t) \/ Recv(t) \/ RecvEOF(t)

SpecAlias == InitAlias /\ [][NextAlias]_vars

\* SpecSplit: a web caller and a Visual_ob caller each reading register 11,
\* which the operator sets to 0x12345678, over a transport that hands the
\* reply to the client in up to MaxFaults + 1 pieces cut anywhere
InitSplit ==
    InitWith([Scenario EXCEPT !.mods = (1 :> "web" @@ 2 :> "ob"),
                              !.prog = (1 :> <<{"read"}>> @@ 2 :> <<{"read"}>>),
                              !.faults = MaxFaults,
                              !.cfrag = 1..(FRAME_SIZE - 1),
                              !.console = {<<11, <<4660, 22136>>>>}])

NextSplit ==
    Server \/ Callers \/ Operator \/ \E t \in Threads : Dial(t) \/ Recv(t)

SpecSplit == InitSplit /\ [][NextSplit]_vars

\* SpecForeign: a web caller and a Visual_ob caller, two read_var(11) each,
\* against a program that answers a READ_ACK for 11, a READ_ACK for 12 or
\* a WRITE_READY
InitForeign ==
    InitWith([Scenario EXCEPT !.mods = (1 :> "web" @@ 2 :> "ob"),
                              !.prog = (1 :> <<{"read"}, {"read"}>> @@
                                        2 :> <<{"read"}, {"read"}>>),
                              !.replies = { Pack(READ_ACK, 11, 0, <<0, 7500>>),
                                            Pack(READ_ACK, 12, 0, <<0, 7500>>),
                                            Pack(WRITE_READY, 11, 0, <<0, 7500>>) }])

NextForeign ==
    \/ Callers
    \/ \E t \in Threads : Dial(t) \/ Recv(t)
    \/ \E c \in Conns : \/ \E m \in cfg.replies : ForeignReply(c, m)
                         \/ ForeignClose(c)

SpecForeign == InitForeign /\ [][NextForeign]_vars

\* SpecTable: MaxOps calls of get and set on a fresh VarTable(100), with
\* indices on both sides of each end of the table
InitTable ==
    InitWith([Scenario EXCEPT !.idxs = {-101, -100, -1, 0, 11, 99, 100, 255},
                              !.vals = {Zero, <<0, 7>>}])

NextTable ==
    \E idx \in cfg.idxs :
        \/ TableGet(1, idx)
        \/ \E val \in cfg.vals : TableSet(1, idx, val)

SpecTable == InitTable /\ [][NextTable]_vars

\* SpecFrames: a probing peer sends a burst of up to MaxBurst frames of
\* every command, to register 11 and out of range, over a transport that
\* delivers each burst whole; then it sends one more frame on a new
\* connection
ProbeFrames ==
    { Pack(READ_REQ, 11, 0, Zero), Pack(READ_CONFIRM, 11, 0, Zero),
      Pack(WRITE_REQ, 11, 0, Zero), Pack(WRITE_REQ, 200, 0, Zero),
      Pack(WRITE_DATA, 11, 0, <<0, 7500>>), Pack(WRITE_DATA, 150, 0, <<0, 7500>>),
      Pack(48, 11, 0, <<0, 7500>>) }

InitFrames ==
    InitWith([Scenario EXCEPT !.mods = (1 :> "probe" @@ 2 :> "off"),
                              !.prog = (1 :> << Bursts(ProbeFrames, MaxBurst),
                                                { Pack(READ_REQ, 11, 0, Zero),
                                                  Pack(WRITE_DATA, 11, 0, <<0, 9>>) } >>
                                        @@ 2 :> <<>>)])

NextFrames == Server \/ Probes

SpecFrames == InitFrames /\ [][NextFrames]_vars

\* SpecCut: the same peer over a transport that may cut a delivery once
InitCut ==
    InitWith([Scenario EXCEPT !.mods = (1 :> "probe" @@ 2 :> "off"),
                              !.prog = (1 :> << Bursts(ProbeFrames, MaxBurst) >>
                                        @@ 2 :> <<>>),
                              !.faults = 1,
                              !.frag = {3, 11}])

NextCut == Server \/ Probes

SpecCut == InitCut /\ [][NextCut]_vars

\* SpecRace: two threads share a VarTable and each calls set twice, on
\* register 11 or out of range, with one of two values
InitRace ==
    InitWith([Scenario EXCEPT !.mods = (1 :> "set" @@ 2 :> "set"),
                              !.prog = (1 :> <<{"set"}, {"set"}>>
                                        @@ 2 :> <<{"set"}, {"set"}>>),
                              !.idxs = {11, 150},
                              !.vals = {<<0, 7>>, <<0, 9>>}])

NextRace == Setters

SpecRace == InitRace /\ [][NextRace]_vars

\* SpecLoss: one web caller writing register 11 over a transport that may
\* fail every attempt of the call, by refusing it or by timing it out
InitLoss ==
    InitWith([Scenario EXCEPT !.mods = (1 :> "web" @@ 2 :> "off"),
                              !.prog = (1 :> <<{"write"}>> @@ 2 :> <<>>),
                              !.vals = {<<0, 7500>>},
                              !.faults = RETRY_MAX * RETRY_MAX])

\* (the server never closes first here, so no recv returns the empty string)
NextLoss ==
    Server \/ Callers \/ Transport \/ \E t \in Threads : Lock(t) \/ Dial(t) \/ Recv(t)

SpecLoss == InitLoss /\ [][NextLoss]_vars

\* SpecReject: a web caller writing register 11 or 150, next to one that
\* reads them
InitReject ==
    InitWith([Scenario EXCEPT !.mods = (1 :> "web" @@ 2 :> "web"),
                              !.prog = (1 :> <<{"write"}>> @@ 2 :> <<{"read"}>>),
                              !.idxs = {11, 150},
                              !.vals = {<<0, 7500>>}])

NextReject ==
    Server \/ Callers \/ \E t \in Threads : Lock(t) \/ Dial(t) \/ Recv(t) \/ RecvEOF(t)

SpecReject == InitReject /\ [][NextReject]_vars

\* SpecOrders: MaxExec requests in a row, and one more at any time, for an
\* order of products A and C or for an unknown order, with any of three
\* actions, while read_var and write_var may fail
InitOrders ==
    InitWith([Scenario EXCEPT !.mods = (1 :> "exec" @@ 2 :> "exec"),
                              !.prog = (1 :> [k \in 1..MaxExec |->
                                                {"produce", "return", "scrap"}]
                                        @@ 2 :> <<{"produce", "return", "scrap"}>>),
                              !.orders = << <<2, 0, 1>> >>,
                              !.lossy = TRUE])

NextOrders == Requests

SpecOrders == InitOrders /\ [][NextOrders]_vars

\* SpecProduce: two produce requests at a time for orders on product A,
\* every read_var and write_var succeeding
InitProduce ==
    InitWith([Scenario EXCEPT !.mods = (1 :> "exec" @@ 2 :> "exec"),
                              !.prog = [t \in Threads |-> <<{"produce"}>>],
                              !.orders = << <<2, 0, 0>>, <<3, 0, 1>> >>])

NextProduce == Requests

SpecProduce == InitProduce /\ [][NextProduce]_vars

\* SpecStream: one thread calls send, _io_cb, recv and close of a
\* ByteStream in any order, with up to MaxStream bytes in all; the socket
\* takes any part of what it is offered, or fails
InitStream ==
    InitWith([Scenario EXCEPT !.data = {<<>>, <<1, 2>>, <<3>>}])

NextStream == Stream

SpecStream == InitStream /\ [][NextStream]_vars

----------------------------------------------------------------------------
(* Properties *)

Returned(t, op) == th[t].pc = "idle" /\ th[t].op = op

\* C1: round trip. When a caller's write_var(idx, val) has returned after
\* its WRITE_DONE, nothing else has set register idx since, and the caller's
\* following read_var(idx) met no transport anomaly, read_var returns val.
RoundTrip ==
    \A t \in Threads :
        ( /\ Returned(t, "read")
          /\ gh[t].fresh # <<>> /\ gh[t].fresh[1] = th[t].idx
          /\ ~gh[t].fault )
        => th[t].result = ResInt(gh[t].fresh[2])

RoundTripWitness ==
    \E t \in Threads :
        /\ Returned(t, "read") /\ ~gh[t].fault
        /\ gh[t].fresh = <<11, <<65535, 65535>>>>
        /\ th[t].idx = 11
        /\ th[t].result = ResInt(<<65535, 65535>>)

\* C2: write_var returns True only with WRITE_DONE as the reply to its
\* WRITE_DATA in hand, and by then the server has applied set(idx, val):
\* the register holds val unless something else has set it since.
TrueMeansApplied ==
    \A t \in Threads :
        (Returned(t, "write") /\ th[t].result.k = "true")
        => /\ th[t].phase = "data"
           /\ Len(th[t].buf) = 8 /\ UnpackBB(th[t].buf, 0).cmd = WRITE_DONE
           /\ gh[t].applied # "no"
           /\ gh[t].applied = "yes" => vals[th[t].idx] = th[t].val

TrueMeansAppliedWitness ==
    \E t \in Threads :
        /\ Returned(t, "write") /\ th[t].result.k = "true"
        /\ th[t].slept > 0
        /\ vals[11] = <<0, 7500>>

\* C3: write_var never raises: whatever ints idx and val are and whatever
\* the server and the transport do, the call returns True or False.
WriteNeverRaises ==
    \A t \in Threads :
        (Returned(t, "write") /\ th[t].result.k # "none")
        => th[t].result.k \in {"true", "false"}

\* C4: with the server unreachable for the whole call, read_var dials
\* exactly RETRY_MAX times and then returns -1.
ReadRetriesExhausted ==
    \A t \in Threads :
        (Returned(t, "read") /\ ~th[t].reached)
        => th[t].tries = RETRY_MAX /\ th[t].result = ResInt(MinusOne)

\* C5: read_var never raises: it returns -1 when the transaction failed and
\* otherwise the value READ_ACK carried, which lies in 0..2^32-1.
ReadNeverRaises ==
    \A t \in Threads :
        Returned(t, "read")
        => /\ th[t].result.k = "int"
           /\ th[t].result.v = MinusOne \/ IsU32(th[t].result.v)

\* C6: linearizable register access. Every READ_ACK for register i, on the
\* wire or in a caller's hands, carries the initial 0 or a value some
\* earlier set(i, v) stored; and a read_var(i) that started after some
\* write_var(i, _) had returned with its WRITE_DONE returns the value the
\* register had when the read started or one set while it ran, never an
\* older one.
LinearizableReads ==
    /\ \A c \in Conns : \A f \in FramesOf(s2c[c]) :
           f.cmd = READ_ACK => f.val = Zero \/ <<f.idx, f.val>> \in stored
    /\ \A t \in Threads : \A f \in FramesOf(th[t].buf) :
           f.cmd = READ_ACK => f.val = Zero \/ <<f.idx, f.val>> \in stored
    /\ \A t \in Threads :
           ( /\ Returned(t, "read") /\ gh[t].floor # {}
             /\ th[t].result.k = "int" /\ th[t].result.v # MinusOne )
           => th[t].result.v \in gh[t].floor

LinearizableReadsWitness ==
    \E t \in Threads :
        /\ Returned(t, "read")
        /\ gh[t].floor = {<<0, 7500>>, <<65535, 65535>>}
        /\ th[t].result = ResInt(<<65535, 65535>>)
        /\ <<0, 7500>> \in gh[t].floor /\ 11 \in gh[t].acked

\* a WRITE_DATA frame for register i with value v is waiting in the input
\* of a connection the server is reading
WriteDataFor(i, v) ==
    \E c \in Conns :
        /\ srv[c] = "reading"
        /\ \E f \in FramesOf(c2s[c]) : f.cmd = WRITE_DATA /\ f.idx = i /\ f.val = v

\* the server accepts every new connection and reads every one with input
Serving ==
    \A c \in Conns :
        /\ srv[c] = "new" => ENABLED Accept(c)
        /\ (srv[c] = "reading" /\ c2s[c] # <<>>) => ENABLED SrvRead(c)

\* C7: fault isolation. Whatever bytes a peer sends and whatever the
\* operator types, in every step the table keeps exactly Size entries; a
\* register changes only to the value of a WRITE_DATA frame for it (index
\* in 0..Size-1) or of a console set; a connection that leaves the live set
\* leaves every other connection as it was; and the server goes on
\* accepting new connections and reading the ones that have input.
FaultIsolation ==
    /\ [](Cardinality(DOMAIN vals) = Size /\ Serving)
    /\ [][ /\ DOMAIN vals' = 0..(Size - 1)
           /\ \A i \in 0..(Size - 1) :
                  vals'[i] # vals[i]
                  => \/ WriteDataFor(i, vals'[i])
                     \/ consoleUp /\ <<i, vals'[i]>> \in cfg.console
           /\ \A c \in Conns :
                  (c \in clients /\ c \notin clients')
                  => \A d \in Conns \ {c} :
                        /\ srv'[d] = srv[d] /\ (d \in clients' <=> d \in clients)
                        /\ c2s'[d] = c2s[d] /\ s2c'[d] = s2c[d]
       ]_vars

\* a connection failed and the console ended on bad input, while a web
\* caller's write was applied and acknowledged on another connection
FaultIsolationWitness ==
    /\ ~consoleUp
    /\ \E c \in Conns : srv[c] = "failed" /\ owner[c] = 0
    /\ \E t \in Threads :
          /\ th[t].pc = "recv" /\ th[t].op = "write" /\ th[t].phase = "data"
          /\ srv[th[t].conn] = "reading"
          /\ s2c[th[t].conn] = Pack(WRITE_DONE, 11, 0, Zero)
          /\ vals[11] = <<0, 7500>>

\* thread t's call got its answer: write_var returned True with the
\* register holding val, read_var returned the register's value
Served(t) ==
    /\ th[t].pc = "idle"
    /\ IF th[t].op = "write"
       THEN th[t].result.k = "true" /\ vals[th[t].idx] = th[t].val
       ELSE th[t].result = ResInt(vals[th[t].idx])

\* C8: a stalled peer does not block others. A call that starts while a
\* peer that sent WRITE_REQ sits silent on its open connection is accepted,
\* answered and, for a write, applied: it comes back served.
StalledDoesNotBlock ==
    \A t \in Threads : (gh[t].hung /\ th[t].pc # "idle") ~> (gh[t].hung /\ Served(t))

StalledDoesNotBlockWitness ==
    \E t \in Threads :
        /\ gh[t].hung /\ Served(t) /\ th[t].op = "write"
        /\ vals[11] = <<0, 7500>>
        /\ \E c \in Conns : HungWriter(c) /\ c \in clients

\* C9: idle timeout. A connection whose peer has gone silent without
\* closing is eventually closed by the server and leaves the live set.
IdleTimeout ==
    \A c \in Conns :
        (peer[c] = "stalled" /\ srv[c] \in {"new", "reading"})
        ~> (c \notin clients /\ srv[c] \notin {"new", "reading"})

\* C10: client calls always terminate. Every read_var and write_var call
\* returns, also when the server closes the connection without sending the
\* reply, and then its caller does not hold _sock_lock.
CallsTerminate ==
    \A t \in Threads :
        (th[t].pc # "idle") ~> (th[t].pc = "idle" /\ sockLock[Module(t)] # t)

\* C11: a READ_REQ whose index is in Size..255 is answered with a READ_ACK
\* carrying 0 and the connection stays open: when the server takes such a
\* frame from an open peer, the coroutine is still reading afterwards and
\* the READ_ACK is among the bytes written.
OutOfRangeReadAnswered ==
    [][ \A c \in Conns :
          ( /\ srv[c] = "reading" /\ peer[c] = "open"
            /\ Len(c2s[c]) >= FRAME_SIZE /\ Len(c2s'[c]) < Len(c2s[c])
            /\ UnpackBB(c2s[c], 0).cmd = READ_REQ
            /\ UnpackBB(c2s[c], 0).idx >= Size )
          => /\ srv'[c] = "reading"
             /\ \E f \in FramesOf(s2c'[c]) :
                   /\ f.cmd = READ_ACK /\ f.val = Zero
                   /\ f.idx = UnpackBB(c2s[c], 0).idx
      ]_vars

InRange(idx) == idx \in 0..(Size - 1)

\* C12: no index aliasing. With idx outside 0..Size-1, read_var(idx) never
\* returns what an in-range register holds (it returns 0 or the failure
\* value -1), write_var(idx, val) ends in failure, and no register takes
\* a value from the wire: each holds 0 or what the console set.
NoIndexAliasing ==
    /\ \A i \in 0..(Size - 1) :
          vals[i] = Zero \/ <<i, vals[i]>> \in cfg.console
    /\ \A t \in Threads :
          (Returned(t, "read") /\ ~InRange(th[t].idx))
          => th[t].result \in {ResInt(Zero), ResInt(MinusOne)}
    /\ \A t \in Threads :
          (Returned(t, "write") /\ ~InRange(th[t].idx))
          => th[t].result.k \in {"false", "raised"}

NoIndexAliasingWitness ==
    /\ vals[0] = <<0, 7>> /\ vals[50] = <<0, 7>> /\ vals[99] = <<0, 7>>
    /\ \E t \in Threads :
          /\ Returned(t, "read") /\ th[t].idx = 150 /\ th[t].reached
          /\ th[t].result = ResInt(MinusOne) /\ th[t].calls = 2

\* thread t has just made the direct table call op
Called(t, op) == th'[t].calls = th[t].calls + 1 /\ th'[t].op = op

\* C13: get(idx) fails for every idx outside 0..Size-1, negative ones
\* included, and returns the register's value for idx in 0..Size-1.
GetRejectsOutOfRange ==
    \A t \in Threads :
        th[t].op = "get"
        => IF InRange(th[t].idx) THEN th[t].result = ResInt(vals[th[t].idx])
           ELSE th[t].result.k = "raised"

\* C14: set(idx, val) with idx outside 0..Size-1 raises, changes no
\* register and does not call on_change.
SetRejectsOutOfRange ==
    [][ \A t \in Threads :
          (Called(t, "set") /\ ~InRange(th'[t].idx))
          => /\ th'[t].result.k = "raised"
             /\ vals' = vals
             /\ notified' = notified
      ]_vars

SetRejectsOutOfRangeWitness ==
    \E t \in Threads :
        /\ th[t].op = "set" /\ th[t].idx = -1 /\ th[t].val = Zero
        /\ th[t].result.k = "raised"
        /\ vals[99] = <<0, 7>> /\ notified = <<99, <<0, 7>>>>

\* C15: idempotent no-op. set(idx, val) on a register that already holds
\* val changes no register and does not call on_change.
IdempotentNoOp ==
    [][ \A t \in Threads :
          ( /\ Called(t, "set") /\ InRange(th'[t].idx)
            /\ vals[th'[t].idx] = th'[t].val )
          => vals' = vals /\ notified' = notified
      ]_vars

IdempotentNoOpWitness ==
    \E t \in Threads :
        /\ th[t].op = "set" /\ th[t].idx = 11 /\ th[t].val = <<0, 7>>
        /\ th[t].result.k = "None"
        /\ vals[11] = <<0, 7>> /\ notified = <<0, <<0, 7>>>>

\* C16: client frame reassembly. However the 8 bytes of the READ_ACK are
\* split over successive reads, read_var ends with the frame the server
\* wrote in buf and returns its value, as it does when they come at once.
FrameReassembled ==
    \A t \in Threads :
        Returned(t, "read")
        => /\ th[t].result.k = "int"
           /\ th[t].result.v \in {Zero, <<4660, 22136>>}
           /\ th[t].buf = Pack(READ_ACK, th[t].idx, 0, th[t].result.v)

FrameReassembledWitness ==
    \E t \in Threads :
        /\ Returned(t, "read") /\ th[t].result = ResInt(<<4660, 22136>>)
        /\ injected = 2
        /\ \A u \in Threads \ {t} : th[u].calls = 0

\* C17: against a server that is unreachable for the whole call, write_var
\* makes RETRY_MAX connection attempts in all and then returns False.
WriteRetriesExhausted ==
    \A t \in Threads :
        (Returned(t, "write") /\ th[t].tries > 0 /\ ~th[t].reached)
        => th[t].tries = RETRY_MAX /\ th[t].result.k = "false"

\* C18: read_var(idx) returns the reply's value only if the reply is a
\* READ_ACK for idx: after a reply with another command or another index
\* the call has not returned the reply's value and no READ_CONFIRM went
\* out on its connection.
ReadChecksReply ==
    \A t \in Threads :
        ( /\ Returned(t, "read") /\ Len(th[t].buf) = FRAME_SIZE
          /\ \/ UnpackBBHI(th[t].buf, 0).cmd # READ_ACK
             \/ UnpackBBHI(th[t].buf, 0).idx # th[t].idx )
        => /\ th[t].result # ResInt(UnpackBBHI(th[t].buf, 0).val)
           /\ \A c \in Conns : \A f \in FramesOf(c2s[c]) :
                 owner[c] = t => f.cmd # READ_CONFIRM

\* connection c has carried nothing but the WRITE_DATA frame of its
\* caller, which is still unread: the server has sent nothing on c
StartsWithWriteData(c) ==
    /\ owner[c] # 0 /\ srv[c] = "reading"
    /\ LET r == th[owner[c]]
       IN  /\ r.pc = "recv" /\ r.conn = c /\ r.op = "write" /\ r.phase = "data"
           /\ r.buf = <<>> /\ s2c[c] = <<>>
           /\ c2s[c] = Pack(WRITE_DATA, r.idx, 0, r.val)

\* C19: a write takes effect only through the complete handshake. A
\* WRITE_DATA frame that is the first frame of its connection, which was
\* never sent WRITE_READY, does not change the table.
HandshakeGuardsWrite ==
    [][ \A c \in Conns :
          (StartsWithWriteData(c) /\ c2s'[c] # c2s[c]) => vals' = vals
      ]_vars

\* C20: one transaction per connection. write_var sends its WRITE_DATA on
\* the connection that carried its WRITE_REQ, so no connection is opened
\* with WRITE_DATA as its first frame.
OneConnectionPerWrite ==
    [][ \A c \in Conns :
          (peer[c] = "none" /\ peer'[c] = "open" /\ Len(c2s'[c]) >= FRAME_SIZE)
          => UnpackBB(c2s'[c], 0).cmd # WRITE_DATA
      ]_vars

----------------------------------------------------------------------------
(* The server's handling of the frames of a read, seen by a probing peer   *)

\* the table of a server that has just started
Fresh == [i \in 0..(Size - 1) |-> Zero]

\* thread t is the first burst of a probing peer, sent to a fresh table,
\* and the server has read it
Probed(t) ==
    /\ Module(t) = "probe" /\ th[t].pc = "talk" /\ th[t].calls = 1
    /\ srv[th[t].conn] # "new" /\ c2s[th[t].conn] = <<>>

\* all the server has written to the peer of thread t
Got(t) == th[t].buf \o s2c[th[t].conn]

\* the k-th frame of the burst of thread t
Sent(t, k) == UnpackBBHI(th[t].sent, (k - 1) * FRAME_SIZE)

\* the coroutine of the connection of thread t is waiting for the next read
Open(t) == srv[th[t].conn] = "reading" /\ th[t].conn \in clients

\* f is a request the protocol answers with one frame
Answered(f) ==
    \/ f.cmd = WRITE_REQ
    \/ f.cmd \in {READ_REQ, WRITE_DATA} /\ InRange(f.idx)

\* the frame the protocol answers f with, register f.idx holding `held`
Answer(f, held) ==
    CASE f.cmd = READ_REQ -> Pack(READ_ACK, f.idx, 0, held)
      [] f.cmd = WRITE_REQ -> Pack(WRITE_READY, f.idx, 0, Zero)
      [] f.cmd = WRITE_DATA -> Pack(WRITE_DONE, f.idx, 0, Zero)

\* C21: frame reassembly. A frame whose 8 bytes reach the server split over
\* two reads is processed once as that frame: when a peer has sent one
\* WRITE_REQ frame and the server has read all its bytes, the peer is sent
\* the WRITE_READY, and one WRITE_DATA frame for a register has been applied
\* to it.
FrameAcrossReads ==
    \A t \in Threads :
        (Probed(t) /\ Len(th[t].sent) = FRAME_SIZE) =>
            /\ Sent(t, 1).cmd = WRITE_REQ =>
                   Got(t) = Pack(WRITE_READY, Sent(t, 1).idx, 0, Zero)
            /\ (Sent(t, 1).cmd = WRITE_DATA /\ InRange(Sent(t, 1).idx)) =>
                   vals[Sent(t, 1).idx] = Sent(t, 1).val

\* C22: the frames of a read are processed from left to right, and the
\* replies go out in the order of their requests: to two requests that
\* arrive in one read the peer is sent the answer to the first and then
\* the answer to the second, the second seeing what the first wrote.
RepliesInOrder ==
    \A t \in Threads :
        ( /\ Probed(t) /\ Len(th[t].sent) = 2 * FRAME_SIZE
          /\ Answered(Sent(t, 1)) /\ Answered(Sent(t, 2)) )
        => LET f == Sent(t, 1)
               g == Sent(t, 2)
               held == IF f.cmd = WRITE_DATA /\ f.idx = g.idx THEN f.val ELSE Zero
           IN  /\ Got(t) = Answer(f, Zero) \o Answer(g, held)
               /\ Open(t)

RepliesInOrderWitness ==
    \E t \in Threads :
        /\ Probed(t)
        /\ th[t].sent = Pack(WRITE_DATA, 11, 0, <<0, 7500>>) \o Pack(READ_REQ, 11, 0, Zero)
        /\ th[t].buf = Pack(WRITE_DONE, 11, 0, Zero) \o Pack(READ_ACK, 11, 0, <<0, 7500>>)

\* C23: a WRITE_DATA frame for a register is applied and then answered with
\* exactly one WRITE_DONE carrying its index, and the connection stays
\* open; a WRITE_DATA frame that is not applied is sent no WRITE_DONE.
WriteDataApplied ==
    \A t \in Threads :
        ( /\ Probed(t) /\ Len(th[t].sent) = FRAME_SIZE
          /\ Sent(t, 1).cmd = WRITE_DATA )
        => LET f == Sent(t, 1)
           IN  IF InRange(f.idx)
               THEN /\ vals = [Fresh EXCEPT ![f.idx] = f.val]
                    /\ Got(t) = Pack(WRITE_DONE, f.idx, 0, Zero)
                    /\ Open(t)
               ELSE /\ vals = Fresh
                    /\ Got(t) = <<>>

WriteDataAppliedWitness ==
    \E t \in Threads :
        /\ Probed(t) /\ Open(t)
        /\ th[t].sent = Pack(WRITE_DATA, 11, 0, <<0, 7500>>)
        /\ th[t].buf = Pack(WRITE_DONE, 11, 0, Zero)
        /\ vals[11] = <<0, 7500>>

\* C24: a READ_REQ frame for a register is answered with one READ_ACK
\* carrying its index and what the register holds, and changes no register:
\* when the server takes such a frame from an open peer, the READ_ACK is
\* the first frame written and the table is as it was.
ReadReqAnswered ==
    [][ \A c \in Conns :
          ( /\ srv[c] = "reading" /\ peer[c] = "open"
            /\ c2s[c] = Pack(READ_REQ, 11, 0, Zero) /\ c2s'[c] = <<>> )
          => /\ s2c'[c] = s2c[c] \o Pack(READ_ACK, 11, 0, vals[11])
             /\ vals' = vals
      ]_vars

\* C25: a WRITE_REQ frame with any index is answered with exactly one
\* WRITE_READY carrying that index, changes no register and leaves the
\* connection open.
WriteReqAnswered ==
    \A t \in Threads :
        ( /\ Probed(t) /\ Len(th[t].sent) = FRAME_SIZE
          /\ Sent(t, 1).cmd = WRITE_REQ )
        => /\ Got(t) = Pack(WRITE_READY, Sent(t, 1).idx, 0, Zero)
           /\ vals = Fresh
           /\ Open(t)

WriteReqAnsweredWitness ==
    \E t \in Threads :
        /\ Probed(t) /\ Open(t)
        /\ th[t].sent = Pack(WRITE_REQ, 200, 0, Zero)
        /\ th[t].buf = Pack(WRITE_READY, 200, 0, Zero)

\* C26: READ_CONFIRM ends the connection without a reply. The server
\* closes it and takes it out of the live set, and what follows
\* READ_CONFIRM in the same read is not processed: the peer is sent only
\* the answers to what came before, and the table is as those frames left
\* it.
ConfirmCloses ==
    \A t \in Threads :
        Probed(t) =>
            /\ Sent(t, 1).cmd = READ_CONFIRM =>
                  /\ Got(t) = <<>> /\ vals = Fresh
                  /\ srv[th[t].conn] = "closed" /\ th[t].conn \notin clients
            /\ ( /\ Len(th[t].sent) = 2 * FRAME_SIZE
                 /\ Answered(Sent(t, 1)) /\ Sent(t, 2).cmd = READ_CONFIRM ) =>
                  /\ Got(t) = Answer(Sent(t, 1), Zero)
                  /\ srv[th[t].conn] = "closed" /\ th[t].conn \notin clients

ConfirmClosesWitness ==
    \E t \in Threads :
        /\ Probed(t)
        /\ th[t].sent = Pack(READ_CONFIRM, 11, 0, Zero)
                           \o Pack(WRITE_DATA, 11, 0, <<0, 7500>>)
        /\ srv[th[t].conn] = "closed" /\ clients = {}
        /\ vals[11] = Zero

\* C27: a frame with an unknown command is ignored. It is sent no reply,
\* changes no register and leaves the connection open, and the frame after
\* it in the same read is processed.
UnknownIgnored ==
    \A t \in Threads :
        ( /\ Probed(t)
          /\ Sent(t, 1).cmd \notin {READ_REQ, READ_CONFIRM, WRITE_REQ, WRITE_DATA} )
        => /\ Len(th[t].sent) = FRAME_SIZE =>
                 Got(t) = <<>> /\ vals = Fresh /\ Open(t)
           /\ (Len(th[t].sent) = 2 * FRAME_SIZE /\ Answered(Sent(t, 2))) =>
                 /\ Got(t) = Answer(Sent(t, 2), Zero)
                 /\ Open(t)
                 /\ Sent(t, 2).cmd = WRITE_DATA =>
                       vals = [Fresh EXCEPT ![Sent(t, 2).idx] = Sent(t, 2).val]

UnknownIgnoredWitness ==
    \E t \in Threads :
        /\ Probed(t) /\ Open(t)
        /\ th[t].sent = Pack(48, 11, 0, <<0, 7500>>) \o Pack(READ_REQ, 11, 0, Zero)
        /\ th[t].buf = Pack(READ_ACK, 11, 0, Zero)

----------------------------------------------------------------------------
(* VarTable.set called from several threads *)

\* thread t has made its first call of set, set(idx, val), and is back
FirstSetDone(t, idx, val) ==
    /\ Module(t) = "set" /\ th[t].pc = "idle" /\ th[t].calls = 1
    /\ th[t].idx = idx /\ th[t].val = val

\* C28: the comparison and the write of set are one critical section.
\* on_change is invoked only by a call whose write changed the register,
\* and when two threads have each called set(i, v) on a register that held
\* another value, on_change has been invoked once.
OnChangeOncePerChange ==
    /\ \A t \in Threads :
          (Module(t) = "set" /\ th[t].fired > 0) => th[t].changed
    /\ \A idx \in cfg.idxs, val \in cfg.vals :
          ( /\ InRange(idx) /\ val # Zero
            /\ \A t \in Threads : FirstSetDone(t, idx, val) )
          => th[1].fired + th[2].fired = 1

\* C29: the table lock is held only around the write. A thread holds it
\* exactly while it is inside the with block, so not while it runs
\* on_change and not after set has returned or raised.
LockOnlyAroundWrite ==
    /\ sockLock["table"] \in {0} \cup Threads
    /\ \A t \in Threads :
          Module(t) = "set" => (sockLock["table"] = t <=> th[t].pc = "write")

LockOnlyAroundWriteWitness ==
    \E t \in Threads :
        /\ Module(t) = "set" /\ th[t].pc = "idle"
        /\ th[t].fired = 1 /\ th[t].result = Res("raised")
        /\ vals[11] = th[t].val
        /\ sockLock["table"] = 0

----------------------------------------------------------------------------
(* The live set *)

\* C30: the live set holds a connection exactly while its handler runs. It
\* is the set of the connections whose coroutine has started and has not
\* ended, whichever way each of the others ended: by READ_CONFIRM, by the
\* peer closing, or by an exception.
LiveSetIsRunningHandlers ==
    clients = {c \in Conns : srv[c] = "reading"}

LiveSetIsRunningHandlersWitness ==
    \E c, d \in Conns :
        /\ srv[c] = "failed" /\ c \notin clients
        /\ srv[d] = "reading" /\ d \in clients

----------------------------------------------------------------------------
(* The clients used from several threads *)

\* thread t has a socket open
OnSocket(t) == th[t].pc = "recv" /\ peer[th[t].conn] = "open"

\* thread t is inside a logical transaction that has begun to use sockets:
\* it has one open, or it is a write_var between its WRITE_READY and its
\* WRITE_DONE
Engaged(t) ==
    \/ OnSocket(t)
    \/ th[t].op = "write" /\ th[t].pc # "idle" /\ th[t].phase = "data"

\* C31: the socket use of a logical transaction is one critical section.
\* While a thread is inside a read_var, or inside a write_var handshake,
\* no other thread of the same process has a socket open.
SocketsSerialized ==
    \A t, u \in Threads :
        (t # u /\ Module(t) = Module(u) /\ Module(t) \in {"web", "ob"})
        => ~(Engaged(t) /\ OnSocket(u))

\* C32: _txn of the web client when no connection attempt succeeds. After
\* the k-th failed attempt, k < RETRY_MAX, it sleeps k units of 0.5 s and
\* dials again with _sock_lock held; after the RETRY_MAX-th it returns the
\* empty string without sleeping, and _sock_lock is free.
TxnBacksOff ==
    [][ \A t \in Threads :
          ( /\ Module(t) = "web" /\ th[t].op = "write" /\ th[t].pc = "dial"
            /\ th'[t].tries = th[t].tries + 1 /\ ~th'[t].reached )
          => IF th[t].att + 1 < RETRY_MAX
             THEN /\ th'[t].pc = "dial" /\ th'[t].att = th[t].att + 1
                  /\ th'[t].slept = th[t].slept + (th[t].att + 1)
                  /\ th'[t].watt = th[t].watt
                  /\ sockLock'["web"] = t
             ELSE /\ th[t].att + 1 = RETRY_MAX
                  /\ th'[t].slept = th[t].slept
                  /\ th'[t].watt = th[t].watt + 1
                  /\ th'[t].pc \in {"lock", "idle"}
                  /\ sockLock'["web"] = 0
      ]_vars

\* the first _txn of a write_var has just given up
TxnBacksOffWitness ==
    \E t \in Threads :
        /\ Module(t) = "web" /\ th[t].op = "write" /\ th[t].pc = "lock"
        /\ th[t].watt = 1 /\ th[t].tries = RETRY_MAX
        /\ 2 * th[t].slept = RETRY_MAX * (RETRY_MAX - 1)
        /\ sockLock["web"] = 0

----------------------------------------------------------------------------
(* Encoding *)

\* C33: encoding truncates and never fails. Whatever ints write_var is
\* given, packing its frames does not raise, and a frame it has sent
\* carries idx mod 256.
EncodeTruncates ==
    \A t \in Threads :
        (Module(t) = "web" /\ th[t].op = "write") =>
            /\ th[t].result.k # "raised"
            /\ \A c \in Conns :
                  (owner[c] = t /\ Len(c2s[c]) >= FRAME_SIZE)
                  => UnpackBB(c2s[c], 0).idx = th[t].idx % 256

----------------------------------------------------------------------------
(* What the table holds *)

\* C34: every register holds an integer in 0..2^32-1, whatever was written
\* over the network and set at the console.
RegistersFit ==
    \A i \in 0..(Size - 1) : IsU32(vals[i])

\* C35: a write_var(idx, val) that returned False has not changed the
\* register: the server has applied no set(idx, val) for that call.
FalseMeansUnapplied ==
    \A t \in Threads :
        (Returned(t, "write") /\ th[t].result.k = "false")
        => /\ gh[t].applied = "no"
           /\ <<th[t].idx, th[t].val>> \notin stored

\* C36: a WRITE_DATA frame for an index in Size..255 is rejected. When the
\* server takes it, no register changes, no WRITE_DONE is written, its
\* connection ends and every other connection is left as it was; and a
\* write_var with such an index returns False with the table unchanged.
WriteDataRejected ==
    /\ [][ \A c \in Conns :
              ( /\ srv[c] = "reading" /\ Len(c2s[c]) >= FRAME_SIZE
                /\ c2s'[c] # c2s[c]
                /\ UnpackBB(c2s[c], 0).cmd = WRITE_DATA
                /\ UnpackBB(c2s[c], 0).idx >= Size )
              => /\ vals' = vals
                 /\ \A f \in FramesOf(s2c'[c]) : f.cmd # WRITE_DONE
                 /\ srv'[c] # "reading" /\ c \notin clients'
                 /\ \A d \in Conns \ {c} :
                       /\ srv'[d] = srv[d] /\ s2c'[d] = s2c[d] /\ c2s'[d] = c2s[d]
                       /\ d \in clients' <=> d \in clients
         ]_vars
    /\ [](\A t \in Threads :
            (Returned(t, "write") /\ th[t].idx \in Size..255)
            => th[t].result.k = "false" /\ vals = Fresh)

WriteDataRejectedWitness ==
    /\ Returned(1, "write") /\ th[1].idx = 150 /\ th[1].reached
    /\ th[1].result.k = "false"
    /\ th[2].pc = "recv" /\ th[2].idx = 11 /\ srv[th[2].conn] = "reading"
    /\ vals = Fresh

----------------------------------------------------------------------------
(* The order layer *)

\* thread t has served a request with this action for order o in full
Executed(t, action, o) ==
    /\ Module(t) = "exec" /\ th[t].pc = "idle"
    /\ th[t].op = action /\ th[t].order = o
    /\ th[t].result = Res("ok")

\* C37: the status of an order goes from pending to executed by one
\* produce, and from executed to returned by one return: over any requests
\* no order has a produce accepted twice or a return accepted twice.
OrderProducedOnce ==
    \A o \in DOMAIN orders :
        /\ orders[o].status \in {"pending", "executed", "returned"}
        /\ orders[o].made <= 1 /\ orders[o].back <= 1
        /\ orders[o].status = "pending" => orders[o].back = 0

\* C38: no update of a register is lost. When two produce requests for
\* different orders have both been served, with every read_var and
\* write_var succeeding, the register of product A holds the sum of the
\* two quantities.
ProduceAddsUp ==
    \A o, p \in DOMAIN orders :
        ( /\ o # p
          /\ Executed(1, "produce", o) /\ Executed(2, "produce", p)
          /\ th[1].clean /\ th[2].clean )
        => vals[EXEC_REG_MAP(1)] = Plus(Plus(Zero, cfg.orders[o][1]), cfg.orders[p][1])

\* C39: exec_order passes no negative value to write_var, whatever the
\* action, the quantity and what read_var returned, -1 included.
WritesNonNegative ==
    \A t \in Threads :
        (Module(t) = "exec" /\ th[t].pc = "write") => th[t].new[1] >= 0

WritesNonNegativeWitness ==
    \E t \in Threads :
        /\ Module(t) = "exec" /\ th[t].pc = "write"
        /\ th[t].op = "return" /\ th[t].val = MinusOne
        /\ th[t].new = Zero

----------------------------------------------------------------------------
(* ByteStream *)

\* C40: the transmit path of ByteStream. The bytes the socket has taken
\* are, in order, the first bytes of all the data send accepted, and
\* _tx_buf holds the rest: nothing is lost, sent twice or reordered when
\* the socket takes only part of the buffer. Once the stream is closed the
\* socket is handed nothing more.
TransmitInOrder ==
    /\ [](bs.wire \o bs.tx = bs.accepted)
    /\ [][bs.closed => bs'.wire = bs.wire /\ bs'.accepted = bs.accepted]_vars

\* of the sends of <<3>> and <<1, 2>> the socket took <<3, 1>>, and the
\* stream was closed with <<2>> unsent
TransmitInOrderWitness ==
    /\ bs.accepted = <<3, 1, 2>> /\ bs.wire = <<3, 1>>
    /\ bs.tx = <<2>> /\ bs.closed

====
